---- MODULE Spec2Model ----
(***************************************************************************)
(* Email ingestion and application-state reconciliation of career-pipeline *)
(* (email_monitor.py, tracker.py, app.py, scheduler.py).                   *)
(*                                                                         *)
(* The tracking store is modelled table by table (oauth_tokens,            *)
(* email_tracking, follow_ups, applications, app_settings), the mailbox    *)
(* providers as the messages they hold, and email_monitoring_job as a      *)
(* sequence of steps (start, one step per provider for refresh and fetch,  *)
(* one step per fetched message, finish) that interleave with the          *)
(* operator's web requests and with the passing of time.                   *)
(***************************************************************************)
EXTENDS Integers, Sequences, FiniteSets, TLC

(***************************************************************************)
(* Bounds of the model.                                                    *)
(***************************************************************************)
MaxTime == 1
MaxIds == 2
MaxMsgs == 2
MaxFaults == 1

(***************************************************************************)
(* Values.                                                                 *)
(***************************************************************************)
Providers == {"gmail", "outlook"}
NoTime == -1
NoApp == 0
NoneStr == "None"

VALID_STATUSES == {"Applied", "Screening", "Interview", "Offer", "Rejected", "Ghosted"}
VALID_EMAIL_STAGES ==
    {"application_received", "screening", "interview_invite",
     "interview_schedule", "rejection", "offer", "other"}

Min(a, b) == IF a <= b THEN a ELSE b

(***************************************************************************)
(* Strings are sequences of one-character strings, so that lower(),        *)
(* split(), replace() and the substring test `in` are computed.            *)
(***************************************************************************)
UpperAlpha ==
    <<"A","B","C","D","E","F","G","H","I","J","K","L","M",
      "N","O","P","Q","R","S","T","U","V","W","X","Y","Z">>
LowerAlpha ==
    <<"a","b","c","d","e","f","g","h","i","j","k","l","m",
      "n","o","p","q","r","s","t","u","v","w","x","y","z">>

LowerChar(c) ==
    IF \E i \in 1..26 : UpperAlpha[i] = c
    THEN LowerAlpha[CHOOSE i \in 1..26 : UpperAlpha[i] = c]
    ELSE c

\* str.lower()
Lower(s) == [i \in 1..Len(s) |-> LowerChar(s[i])]

\* a in b  (substring test)
IsSubstr(a, b) ==
    \E i \in 0..(Len(b) - Len(a)) : SubSeq(b, i + 1, i + Len(a)) = a

\* c in s  (a single character)
HasChar(s, c) == \E i \in 1..Len(s) : s[i] = c

\* position of the first occurrence of c in s, Len(s)+1 when absent
FirstIndex(s, c) ==
    IF HasChar(s, c) THEN CHOOSE i \in 1..Len(s) : s[i] = c /\ \A j \in 1..(i - 1) : s[j] # c
    ELSE Len(s) + 1

\* s.split(c)[0]
SplitHead(s, c) == SubSeq(s, 1, FirstIndex(s, c) - 1)

\* s.split(c)[1], for s that holds c
SplitSecond(s, c) ==
    LET rest == SubSeq(s, FirstIndex(s, c) + 1, Len(s))
    IN  SplitHead(rest, c)

\* s.replace(c, "")
RemoveChar(s, c) == SelectSeq(s, LAMBDA x : x # c)

Str_gmail_com == <<"g","m","a","i","l",".","c","o","m">>
Str_yahoo_com == <<"y","a","h","o","o",".","c","o","m">>
Str_hotmail_com == <<"h","o","t","m","a","i","l",".","c","o","m">>
Str_outlook_com == <<"o","u","t","l","o","o","k",".","c","o","m">>
Str_aol_com == <<"a","o","l",".","c","o","m">>
Str_icloud_com == <<"i","c","l","o","u","d",".","c","o","m">>
Str_protonmail_com == <<"p","r","o","t","o","n","m","a","i","l",".","c","o","m">>

skip_domains ==
    {Str_gmail_com, Str_yahoo_com, Str_hotmail_com, Str_outlook_com,
     Str_aol_com, Str_icloud_com, Str_protonmail_com}

(***************************************************************************)
(* Floating point.  The matcher adds 0.6, 0.3 and 0.1 in IEEE doubles and  *)
(* compares the sum with 0.5 and 0.7.  A score is kept in units of 1/10000 *)
(* and FloatAdd rounds as the double addition does: 0.6 + 0.3 is           *)
(* 0.8999999999999999 and that plus 0.1 is 0.9999999999999999, both just   *)
(* below the decimal sum, while 0.6 + 0.1 is 0.7 and 0.3 + 0.1 is 0.4.     *)
(***************************************************************************)
F0_0 == 0
F0_1 == 1000
F0_3 == 3000
F0_5 == 5000
F0_6 == 6000
F0_7 == 7000
F1_0 == 10000

F0_8999 == 8999
F0_9999 == 9999

FloatAdd(a, b) ==
    IF a = F0_6 /\ b = F0_3 THEN F0_8999
    ELSE IF a = F0_8999 /\ b = F0_1 THEN F0_9999
    ELSE a + b

(***************************************************************************)
(* Time.  The clock counts ticks; a calendar day is DayLen ticks long.     *)
(***************************************************************************)
DayLen == 2
DayOf(t) == t \div DayLen

\* an access token of the Gmail-like provider is valid through tick issue + TokenTTL
TokenTTL == 0

(***************************************************************************)
(* applications: the rows the operator tracks.  Company and role never     *)
(* change in the model; status and last_updated do.                        *)
(***************************************************************************)
Str_AcmeCorp == <<"A","c","m","e"," ","C","o","r","p">>
Str_BackendEngineer ==
    <<"B","a","c","k","e","n","d"," ","E","n","g","i","n","e","e","r">>
Str_AcmeInc == <<"A","c","m","e"," ","I","n","c">>
Str_DataAnalyst == <<"D","a","t","a"," ","A","n","a","l","y","s","t">>

AppIds == {1, 2}

\* the applications the matcher is tried on besides: one whose company is
\* empty and one whose company is named like a consumer mail service
Str_Gmail == <<"G","m","a","i","l">>
MatcherAppIds == {1, 2, 3, 4}

Application(a) ==
    IF a = 1
    THEN [id |-> 1, company |-> Str_AcmeCorp, role |-> Str_BackendEngineer]
    ELSE IF a = 3
    THEN [id |-> 3, company |-> <<>>, role |-> Str_BackendEngineer]
    ELSE IF a = 4
    THEN [id |-> 4, company |-> Str_Gmail, role |-> Str_DataAnalyst]
    ELSE [id |-> a, company |-> Str_AcmeInc, role |-> Str_DataAnalyst]

(***************************************************************************)
(* The messages the providers can hold.  RawMessage(p, id) is the message  *)
(* the provider p returns under message id id, as the dict that            *)
(* fetch_recent_emails builds from it.                                     *)
(***************************************************************************)
Str_hr_acme == <<"h","r","@","a","c","m","e",".","c","o","m">>
Str_jobs_gmail == <<"j","o","b","s","@","g","m","a","i","l",".","c","o","m">>
Str_Unfortunately ==
    <<"U","n","f","o","r","t","u","n","a","t","e","l","y",","," ","w","e"," ",
      "h","a","v","e"," ","d","e","c","i","d","e","d",".",".",".">>
Str_ThankYouAcme ==
    <<"T","h","a","n","k"," ","y","o","u"," ","f","o","r"," ","a","p","p","l",
      "y","i","n","g"," ","t","o"," ","A","c","m","e"," ","C","o","r","p">>
Str_BackendInterview ==
    <<"B","a","c","k","e","n","d"," ","E","n","g","i","n","e","e","r"," ",
      "i","n","t","e","r","v","i","e","w">>
Str_BackendOpening ==
    <<"B","a","c","k","e","n","d"," ","E","n","g","i","n","e","e","r"," ",
      "o","p","e","n","i","n","g">>

MsgIds == 1..MaxIds

RawMessage(p, id) ==
    IF p = "gmail" /\ id % 2 = 1 THEN
        [email_id |-> id, sender_email |-> Str_hr_acme,
         subject |-> Str_Unfortunately, body_preview |-> <<>>]
    ELSE IF p = "outlook" /\ id % 2 = 1 THEN
        [email_id |-> id, sender_email |-> Str_hr_acme,
         subject |-> Str_Unfortunately, body_preview |-> Str_ThankYouAcme]
    ELSE IF p = "gmail" THEN
        [email_id |-> id, sender_email |-> Str_jobs_gmail,
         subject |-> Str_BackendOpening, body_preview |-> <<>>]
    ELSE
        [email_id |-> id, sender_email |-> Str_hr_acme,
         subject |-> Str_BackendInterview, body_preview |-> <<>>]

(***************************************************************************)
(* auto_match_email_to_application                                         *)
(***************************************************************************)
\* a matcher that keeps the domains of the consumer mail services
SenderDomain_NoSkip(sender_email) ==
    IF HasChar(sender_email, "@")
    THEN Lower(SplitSecond(sender_email, "@"))
    ELSE <<>>

SenderDomain(sender_email) ==
    IF HasChar(sender_email, "@")
    THEN LET d == Lower(SplitSecond(sender_email, "@"))
         IN  IF d \in skip_domains THEN <<>> ELSE d
    ELSE <<>>

\* the score one application earns in the loop body, from the lowered text of
\* the message, the sender's domain and the lowered company and role
ScoreOf(combined_text, sender_domain, company, role) ==
    LET company_slug == RemoveChar(RemoveChar(RemoveChar(company, " "), ","), ".")
        domain_slug == SplitHead(sender_domain, ".")
        s1 == IF sender_domain # <<>>
                 /\ (IsSubstr(domain_slug, company_slug)
                     \/ IsSubstr(company_slug, domain_slug))
              THEN FloatAdd(F0_0, F0_6) ELSE F0_0
        s2 == IF IsSubstr(company, combined_text) THEN FloatAdd(s1, F0_3) ELSE s1
        s3 == IF role # <<>> /\ IsSubstr(role, combined_text)
              THEN FloatAdd(s2, F0_1) ELSE s2
    IN  s3

\* combined_text, sender_domain, company and role are each computed once
AppScore(email, app) ==
    CHOOSE score \in
        {ScoreOf(t, d, c, r) :
            t \in {Lower(email.subject \o <<" ">> \o email.body_preview)},
            d \in {SenderDomain(email.sender_email)},
            c \in {Lower(app.company)},
            r \in {Lower(app.role)}} : TRUE

\* a loop in which a later application with an equal score wins
RECURSIVE MatchLoop_LastWins(_, _, _, _)
MatchLoop_LastWins(email, applications, best_match, best_score) ==
    IF applications = <<>> THEN <<best_match, best_score>>
    ELSE LET app == Head(applications)
             score == AppScore(email, app)
         IN  IF Lower(app.company) = <<>>
             THEN MatchLoop_LastWins(email, Tail(applications), best_match, best_score)
             ELSE IF score >= best_score
             THEN MatchLoop_LastWins(email, Tail(applications), app.id, score)
             ELSE MatchLoop_LastWins(email, Tail(applications), best_match, best_score)

\* the for loop over applications, from the state (best_match, best_score)
RECURSIVE MatchLoop(_, _, _, _)
MatchLoop(email, applications, best_match, best_score) ==
    IF applications = <<>> THEN <<best_match, best_score>>
    ELSE LET app == Head(applications)
             score == AppScore(email, app)
         IN  IF Lower(app.company) = <<>>
             THEN MatchLoop(email, Tail(applications), best_match, best_score)
             ELSE IF score > best_score
             THEN MatchLoop(email, Tail(applications), app.id, score)
             ELSE MatchLoop(email, Tail(applications), best_match, best_score)

\* returns <<matched application id or NoApp, confidence>>
auto_match_email_to_application(email, applications) ==
    IF email.sender_email = <<>> \/ applications = <<>>
    THEN <<NoApp, F0_0>>
    ELSE LET r == MatchLoop(email, applications, NoApp, F0_0)
         IN  <<r[1], Min(r[2], F1_0)>>

\* the orders get_all_applications can return the tracked applications in
AppOrders == {<<1>>, <<1, 2>>, <<2, 1>>}

\* the matcher's result for every message and every list of applications
MatchTable ==
    [p \in Providers, i \in MsgIds, order \in AppOrders |->
        auto_match_email_to_application(
            RawMessage(p, i), [k \in 1..Len(order) |-> Application(order[k])])]

(***************************************************************************)
(* classify_email_stage.  The external call either raises (timeout,        *)
(* service error, text that is no JSON) or yields the parsed JSON object.  *)
(* The call is made with temperature 0: the service answers a given text   *)
(* the same way each time.  Confidences are in hundredths.                 *)
(***************************************************************************)
LLMConfidence == 82

\* the labels the service can answer with: the seven stages and one that is
\* none of them
Labels == VALID_EMAIL_STAGES \cup {"unknown_label"}

\* what the service makes of the text of a message, left to itself
LabelOfText(email_data) ==
    IF email_data.subject = Str_Unfortunately THEN "rejection"
    ELSE IF email_data.subject = Str_BackendInterview THEN "interview_invite"
    ELSE "offer"

\* the keys of extracted_data the service fills in for a label
LLMExtracted(stage) ==
    IF stage \in {"interview_invite", "interview_schedule"} THEN {"interview_date"}
    ELSE IF stage = "rejection" THEN {"rejection_reason"}
    ELSE IF stage = "offer" THEN {"response_deadline"}
    ELSE {}

\* call_claude + parse_json_response: `oracle` is the label the service puts
\* on every message, or "by_text" when it reads them; `raises` when the call
\* or the parsing fails
LLMOutcome(email_data, oracle, raises) ==
    LET stage == IF oracle = "by_text" THEN LabelOfText(email_data) ELSE oracle
    IN  IF raises
        THEN [kind |-> "raise", stage |-> NoneStr, confidence |-> 0,
              extracted_data |-> {}]
        ELSE [kind |-> "json", stage |-> stage, confidence |-> LLMConfidence,
              extracted_data |-> LLMExtracted(stage)]

\* a fallback that keeps the confidence the service usually reports
classify_email_stage_Unsure(outcome) ==
    IF outcome.kind = "raise"
    THEN [stage |-> "other", confidence |-> LLMConfidence, extracted_data |-> {}]
    ELSE [stage |-> outcome.stage, confidence |-> outcome.confidence,
          extracted_data |-> outcome.extracted_data]

\* classify_email_stage: the parsed reply as it is, or the fallback when the
\* call or the parsing raised
classify_email_stage(outcome) ==
    IF outcome.kind = "raise"
    THEN [stage |-> "other", confidence |-> 0, extracted_data |-> {}]
    ELSE [stage |-> outcome.stage, confidence |-> outcome.confidence,
          extracted_data |-> outcome.extracted_data]

(***************************************************************************)
(* The Reconciler: what email_monitoring_job derives from the match and    *)
(* the classification of one new message.                                  *)
(***************************************************************************)
\* rows whose user_confirmed is never set by the poll cycle
TrackingRow_Unset(via, email_data, matched_app, confidence, classification) ==
    [application_id |-> IF matched_app # NoApp /\ confidence >= F0_5
                        THEN matched_app ELSE NoApp,
     email_id |-> email_data.email_id,
     detected_stage |-> classification.stage,
     confidence_score |-> classification.confidence,
     parsed_data |-> classification.extracted_data,
     auto_matched |-> (confidence >= F0_5),
     processed |-> TRUE,
     user_confirmed |-> NoneStr,
     via |-> via]

\* the keyword arguments of create_email_tracking; `via` is not a column of
\* email_tracking: it records which provider the row came from
TrackingRow(via, email_data, matched_app, confidence, classification) ==
    [application_id |-> IF matched_app # NoApp /\ confidence >= F0_5
                        THEN matched_app ELSE NoApp,
     email_id |-> email_data.email_id,
     detected_stage |-> classification.stage,
     confidence_score |-> classification.confidence,
     parsed_data |-> classification.extracted_data,
     auto_matched |-> (confidence >= F0_5),
     processed |-> TRUE,
     user_confirmed |-> IF confidence < F0_7 THEN NoneStr ELSE "True",
     via |-> via]

\* a table without the entry for rejection
status_map_NoRejection(stage) ==
    CASE stage = "screening" -> "Screening"
      [] stage = "interview_invite" -> "Interview"
      [] stage = "interview_schedule" -> "Interview"
      [] stage = "offer" -> "Offer"
      [] OTHER -> NoneStr

\* status_map.get(stage)
status_map(stage) ==
    CASE stage = "screening" -> "Screening"
      [] stage = "interview_invite" -> "Interview"
      [] stage = "interview_schedule" -> "Interview"
      [] stage = "rejection" -> "Rejected"
      [] stage = "offer" -> "Offer"
      [] OTHER -> NoneStr

\* the branch taken only above 0.7
HighConfidence_Strict(matched_app, confidence) ==
    matched_app # NoApp /\ confidence > F0_7

\* the branch taken from 0.5 on
HighConfidence_Half(matched_app, confidence) ==
    matched_app # NoApp /\ confidence >= F0_5

\* the branch that updates the application and may create a follow-up
HighConfidence(matched_app, confidence) ==
    matched_app # NoApp /\ confidence >= F0_7

\* a setting that counts as off when absent
AutoUpdateOn_DefaultOff(setting) == setting = "true"

\* get_setting(db, "email_auto_update", "true") == "true"
AutoUpdateOn(setting) ==
    (IF setting = NoneStr THEN "true" ELSE setting) = "true"

\* every follow-up one day out
FollowUpOffset_Flat(stage) ==
    IF stage \in {"interview_invite", "rejection", "offer", "screening"} THEN 1 ELSE 0

\* schedule_followup_from_email; today is the day number of date.today().
\* `email_id` is not a column of follow_ups: it records the triggering message
FollowUpOffset(stage) ==
    CASE stage = "interview_invite" -> 1
      [] stage = "rejection" -> 1
      [] stage = "offer" -> 2
      [] stage = "screening" -> 5
      [] OTHER -> 0

schedule_followup_from_email(stage, application_id, today) ==
    CASE stage = "interview_invite" ->
            [application_id |-> application_id, action_type |-> "Thank You",
             scheduled_date |-> today + FollowUpOffset(stage),
             notes |-> "Auto-created: Send thank-you after interview"]
      [] stage = "rejection" ->
            [application_id |-> application_id, action_type |-> "Email Follow-up",
             scheduled_date |-> today + FollowUpOffset(stage),
             notes |-> "Auto-created: Send gracious response to rejection"]
      [] stage = "offer" ->
            [application_id |-> application_id, action_type |-> "Email Follow-up",
             scheduled_date |-> today + FollowUpOffset(stage),
             notes |-> "Auto-created: Respond to offer / begin negotiation"]
      [] stage = "screening" ->
            [application_id |-> application_id, action_type |-> "Email Follow-up",
             scheduled_date |-> today + FollowUpOffset(stage),
             notes |-> "Auto-created: Follow up after screening if no response"]
      [] OTHER -> NoneStr

\* followup_data is not None
HasFollowUp(stage) == stage \in {"interview_invite", "rejection", "offer", "screening"}

(***************************************************************************)
(* Provider adapters: fetch_recent_emails.                                 *)
(***************************************************************************)
max_results == 50
SinceDays == 7

\* Gmail filters with after:YYYY/MM/DD (the day of since), the Graph API with
\* receivedDateTime ge since
Eligible(p, received, since_) ==
    IF p = "gmail" THEN DayOf(received) >= DayOf(since_) ELSE received >= since_

\* newest first (Graph: $orderby=receivedDateTime desc), ties by message id
RECURSIVE NewestFirst(_, _)
NewestFirst(ids, box) ==
    IF ids = {} THEN <<>>
    ELSE LET top == CHOOSE i \in ids :
                        \A j \in ids : box[j] < box[i] \/ (box[j] = box[i] /\ j <= i)
         IN  <<top>> \o NewestFirst(ids \ {top}, box)

\* the list fetch_recent_emails returns for the mailbox `box` of provider p
FetchResult(p, box, since_) ==
    LET ids == {i \in DOMAIN box : box[i] # NoTime /\ Eligible(p, box[i], since_)}
        all == NewestFirst(ids, box)
    IN  [k \in 1..Min(Len(all), max_results) |-> RawMessage(p, all[k])]

\* how a provider answers the request: with the messages, with HTTP 429,
\* with another error raised inside the adapter's try, or by a failure that
\* escapes the adapter
Responses == {"200", "429", "error", "raise"}

\* an adapter that lets the rate limit escape as an exception
fetch_recent_emails_Raise429(p, box, since_, response) ==
    IF response \in {"raise", "429"} THEN [raised |-> TRUE, emails |-> <<>>]
    ELSE IF response = "error" THEN [raised |-> FALSE, emails |-> <<>>]
    ELSE [raised |-> FALSE, emails |-> FetchResult(p, box, since_)]

\* fetch_recent_emails: return [] on a 429 and on an error of the request
fetch_recent_emails(p, box, since_, response) ==
    IF response = "raise" THEN [raised |-> TRUE, emails |-> <<>>]
    ELSE IF response \in {"429", "error"} THEN [raised |-> FALSE, emails |-> <<>>]
    ELSE [raised |-> FALSE, emails |-> FetchResult(p, box, since_)]

(***************************************************************************)
(* State.                                                                  *)
(***************************************************************************)
VARIABLES
    clock,              \* datetime.utcnow(), in ticks
    mailbox,            \* provider -> message id -> time received, or NoTime
    configured,         \* provider -> is_configured (client id and secret set)
    oracle,             \* how the classification service labels messages
    oauth_tokens,       \* table oauth_tokens, rows in id order
    email_last_run,     \* setting email_last_run (the poll watermark), or NoTime
    email_auto_update,  \* setting email_auto_update, or NoneStr when absent
    app_status,         \* applications.status by application id
    app_order,          \* application ids by last_updated, newest first
    email_tracking,     \* table email_tracking, rows in id order
    follow_ups,         \* table follow_ups, rows in id order
    pc,                 \* position of email_monitoring_job
    since,              \* its local since
    job_tokens,         \* its local tokens
    tok_idx,            \* position of the loop over tokens
    access_token,       \* its local access_token: as stored, or refreshed
    all_applications,   \* its local all_applications
    fetch_status,       \* how the provider answered its last fetch
    emails,             \* its local emails
    msg_idx,            \* position of the loop over emails
    stats,              \* its local stats
    wm_at_start,        \* the watermark when the running cycle started
    fault_budget,       \* failures the environment may still inject
    match_email,        \* the message a caller hands to the matcher
    match_applications, \* the list of applications it hands to it
    match_result,       \* what the matcher returned, <<>> before the call
    sched_running,      \* scheduler.running
    sched_jobs,         \* the ids of the jobs the scheduler holds
    executing,          \* per job: the instances of it running in the thread pool
    due,                \* per job: firings that came due and are not yet processed
    job_log,            \* per job: how its wrapper's last run ended
    escaped,            \* the jobs whose exception reached the executor
    req_pc,             \* per web request: position of oauth_callback
    req_provider,       \* per web request: its <provider>
    req_existing,       \* per web request: id of the row its query found, 0 if none
    req_expiry,         \* per web request: the expiry authenticate() returned
    req_response,       \* per web request: what it answered, None until it does
    next_token_id,      \* oauth_tokens.id, autoincrement
    encryption_key,     \* os.environ ENCRYPTION_KEY, "" when unset
    HAS_CRYPTO,         \* whether cryptography.fernet could be imported
    vault_token,        \* a token handed to encrypt_token
    vault_encrypted,    \* what encrypt_token returned for it, and under which Fernet
    vault_decrypted,    \* what decrypt_token was given and returned
    review_answer       \* what the last confirm or reject request was answered

vars ==
    <<clock, mailbox, configured, oracle, oauth_tokens, email_last_run, email_auto_update,
      app_status, app_order, email_tracking, follow_ups, pc, since, job_tokens,
      tok_idx, access_token, all_applications, fetch_status, emails, msg_idx, stats,
      wm_at_start, fault_budget, match_email, match_applications, match_result,
      sched_running, sched_jobs, executing, due, job_log, escaped,
      req_pc, req_provider, req_existing, req_expiry, req_response, next_token_id,
      encryption_key, HAS_CRYPTO, vault_token, vault_encrypted, vault_decrypted,
      review_answer>>

storeVars ==
    <<oauth_tokens, email_last_run, email_auto_update, app_status, app_order,
      email_tracking, follow_ups>>
jobVars ==
    <<pc, since, job_tokens, tok_idx, access_token, all_applications, fetch_status,
      emails, msg_idx, stats, wm_at_start>>
envVars == <<clock, mailbox, configured, oracle>>
matchVars == <<match_email, match_applications, match_result>>
schedVars == <<sched_running, sched_jobs, executing, due, job_log, escaped>>
oauthVars ==
    <<req_pc, req_provider, req_existing, req_expiry, req_response, next_token_id>>

\* the ids init_scheduler adds its five jobs under
JobIds ==
    {"email_monitoring", "followup_reminders", "network_decay", "variant_analysis",
     "monthly_cleanup"}

\* before init_scheduler
NoScheduler ==
    /\ sched_running = FALSE
    /\ sched_jobs = {}
    /\ executing = [j \in JobIds |-> 0]
    /\ due = [j \in JobIds |-> 0]
    /\ job_log = [j \in JobIds |-> NoneStr]
    /\ escaped = {}

\* no confirm or reject request answered and unread
NoAnswer == [route |-> NoneStr, tracking_id |-> 0, status |-> NoneStr]

vaultVars ==
    <<encryption_key, HAS_CRYPTO, vault_token, vault_encrypted, vault_decrypted>>

\* the credential vault before any call: no key set
NoVault ==
    /\ encryption_key = ""
    /\ HAS_CRYPTO = TRUE
    /\ vault_token = <<>>
    /\ vault_encrypted = [called |-> FALSE, fernet |-> "", value |-> <<>>]
    /\ vault_decrypted = [called |-> FALSE, fernet |-> "", encrypted |-> <<>>,
                          raised |-> FALSE, value |-> <<>>]

\* web requests handled at the same time, and rows oauth_tokens may number
MaxReqs == 2
MaxRows == 3
ReqIds == 1..MaxReqs

\* no OAuth request under way, no row inserted yet
NoRequests ==
    /\ req_pc = [r \in ReqIds |-> "idle"]
    /\ req_provider = [r \in ReqIds |-> NoneStr]
    /\ req_existing = [r \in ReqIds |-> 0]
    /\ req_expiry = [r \in ReqIds |-> NoTime]
    /\ req_response = [r \in ReqIds |-> NoneStr]
    /\ next_token_id = 1

ZeroStats == [processed |-> 0, matched |-> 0, followups_created |-> 0, errors |-> 0]

Init ==
    /\ clock = 0
    /\ mailbox = [p \in Providers |-> [i \in MsgIds |-> NoTime]]
    /\ configured \in {[p \in Providers |-> TRUE], [p \in Providers |-> p = "gmail"]}
    /\ oracle = "by_text"
    /\ oauth_tokens = <<>>
    /\ email_last_run = NoTime
    /\ email_auto_update = NoneStr
    /\ app_status = [a \in AppIds |-> "Applied"]
    /\ app_order = <<1>>
    /\ email_tracking = <<>>
    /\ follow_ups = <<>>
    /\ pc = "idle"
    /\ since = NoTime
    /\ job_tokens = <<>>
    /\ tok_idx = 0
    /\ access_token = NoneStr
    /\ all_applications = <<>>
    /\ fetch_status = NoneStr
    /\ emails = <<>>
    /\ msg_idx = 0
    /\ stats = ZeroStats
    /\ wm_at_start = NoTime
    /\ fault_budget = MaxFaults
    /\ match_email = NoneStr
    /\ match_applications = <<>>
    /\ match_result = <<>>
    /\ NoScheduler
    /\ NoRequests
    /\ review_answer = NoAnswer
    /\ NoVault

(***************************************************************************)
(* The environment: time passes and mail arrives.                          *)
(***************************************************************************)
Tick ==
    /\ clock < MaxTime
    /\ clock' = clock + 1
    /\ UNCHANGED <<mailbox, configured, oracle, storeVars, jobVars, fault_budget,
                   matchVars, schedVars, oauthVars, vaultVars, review_answer>>

\* the number of messages the providers hold
Held(box) ==
    Cardinality({pi \in Providers \X MsgIds : box[pi[1]][pi[2]] # NoTime})

Deliver ==
    \E p \in Providers, i \in MsgIds :
        /\ mailbox[p][i] = NoTime
        /\ Held(mailbox) < MaxMsgs
        /\ mailbox' = [mailbox EXCEPT ![p][i] = clock]
        /\ UNCHANGED <<clock, configured, oracle, storeVars, jobVars, fault_budget,
                       matchVars, schedVars, oauthVars, vaultVars, review_answer>>

(***************************************************************************)
(* The operator's web requests (app.py).                                   *)
(***************************************************************************)
RECURSIVE RemoveFirst(_, _)
\* db.delete(db.query(OAuthToken).filter_by(provider=provider).first())
RemoveFirst(rows, p) ==
    IF rows = <<>> THEN <<>>
    ELSE IF Head(rows).provider = p THEN Tail(rows)
    ELSE <<Head(rows)>> \o RemoveFirst(Tail(rows), p)

\* the expiry authenticate() reports: Gmail the credential's, Outlook none
IssuedExpiry(p, now) == IF p = "gmail" THEN now + TokenTTL ELSE NoTime

\* GET /oauth/callback/<provider>: without a code, for a provider that is not
\* configured, or when the exchange fails, nothing is stored
oauth_callback ==
    \E p \in Providers, exchanged \in BOOLEAN :
        /\ IF configured[p] /\ exchanged
           THEN LET kept == RemoveFirst(oauth_tokens, p)
                IN  oauth_tokens' =
                        Append(kept, [provider |-> p,
                                      token_expiry |-> IssuedExpiry(p, clock)])
           ELSE UNCHANGED oauth_tokens
        /\ UNCHANGED <<envVars, matchVars, schedVars, oauthVars, vaultVars, review_answer, email_last_run, email_auto_update, app_status,
                       app_order, email_tracking, follow_ups, jobVars, fault_budget>>

\* POST /settings/email/disconnect/<provider>
email_disconnect ==
    \E p \in Providers :
        /\ oauth_tokens' = RemoveFirst(oauth_tokens, p)
        /\ UNCHANGED <<envVars, matchVars, schedVars, oauthVars, vaultVars, review_answer, email_last_run, email_auto_update, app_status,
                       app_order, email_tracking, follow_ups, jobVars, fault_budget>>

\* POST /settings/save: the checkbox email_auto_update is stored as "true"
\* when ticked and "false" when not
settings_save ==
    \E v \in {"true", "false"} :
        /\ email_auto_update' = v
        /\ UNCHANGED <<envVars, matchVars, schedVars, oauthVars, vaultVars, review_answer, oauth_tokens, email_last_run, app_status,
                       app_order, email_tracking, follow_ups, jobVars, fault_budget>>

\* a confirm that also files the row as matched
ConfirmRow_Rematch(em) == [em EXCEPT !.user_confirmed = "True", !.auto_matched = TRUE]

\* email_confirm_match, lines 1610-1611
ConfirmRow(em) == [em EXCEPT !.user_confirmed = "True"]

\* a reject that leaves the row filed as matched
RejectRow_KeepFlag(em) == [em EXCEPT !.user_confirmed = "False", !.application_id = NoApp]

\* email_reject_match, lines 1625-1628
RejectRow(em) ==
    [em EXCEPT !.user_confirmed = "False", !.auto_matched = FALSE,
               !.application_id = NoApp]

\* POST /api/email/confirm/<tracking_id>; an unknown id answers 404
email_confirm_match ==
    \E tracking_id \in 1..(Len(email_tracking) + 1) :
        /\ IF tracking_id <= Len(email_tracking)
           THEN email_tracking' =
                    [email_tracking EXCEPT ![tracking_id] = ConfirmRow(@)]
           ELSE UNCHANGED email_tracking
        /\ UNCHANGED <<envVars, matchVars, schedVars, oauthVars, vaultVars, review_answer, oauth_tokens, email_last_run, email_auto_update,
                       app_status, app_order, follow_ups, jobVars, fault_budget>>

\* POST /api/email/reject/<tracking_id>; an unknown id answers 404
email_reject_match ==
    \E tracking_id \in 1..(Len(email_tracking) + 1) :
        /\ IF tracking_id <= Len(email_tracking)
           THEN email_tracking' =
                    [email_tracking EXCEPT ![tracking_id] = RejectRow(@)]
           ELSE UNCHANGED email_tracking
        /\ UNCHANGED <<envVars, matchVars, schedVars, oauthVars, vaultVars, review_answer, oauth_tokens, email_last_run, email_auto_update,
                       app_status, app_order, follow_ups, jobVars, fault_budget>>

\* get_unconfirmed_matches: the ids of the rows in the review queue
get_unconfirmed_matches ==
    {i \in 1..Len(email_tracking) :
        email_tracking[i].auto_matched /\ email_tracking[i].user_confirmed = NoneStr}

(***************************************************************************)
(* email_monitoring_job, step by step.  The scheduler runs one instance at *)
(* a time (max_instances = 1).                                             *)
(***************************************************************************)
\* the function returns or raises: its locals are gone
JobReturn ==
    /\ pc' = "idle"
    /\ since' = NoTime
    /\ job_tokens' = <<>>
    /\ tok_idx' = 0
    /\ access_token' = NoneStr
    /\ all_applications' = <<>>
    /\ fetch_status' = NoneStr
    /\ emails' = <<>>
    /\ msg_idx' = 0
    /\ stats' = ZeroStats
    /\ wm_at_start' = NoTime

\* since, from the watermark read at the start
SinceFrom(last_run, now) ==
    IF last_run = NoTime THEN now - SinceDays * DayLen ELSE last_run

\* lines 522-538: read the watermark, load the tokens and the applications
JobStart ==
    /\ pc = "idle"
    /\ \/ \* no providers connected: return
          /\ oauth_tokens = <<>>
          /\ UNCHANGED <<jobVars, fault_budget>>
       \/ /\ oauth_tokens # <<>>
          /\ pc' = "provider"
          /\ since' = SinceFrom(email_last_run, clock)
          /\ job_tokens' = oauth_tokens
          /\ tok_idx' = 1
          /\ access_token' = NoneStr
          /\ all_applications' = app_order
          /\ fetch_status' = NoneStr
          /\ emails' = <<>>
          /\ msg_idx' = 0
          /\ stats' = ZeroStats
          /\ wm_at_start' = email_last_run
          /\ UNCHANGED fault_budget
       \/ \* a query of lines 525-537 raises: rollback, the job raises
          /\ fault_budget > 0
          /\ fault_budget' = fault_budget - 1
          /\ UNCHANGED jobVars
    /\ UNCHANGED <<envVars, matchVars, schedVars, oauthVars, vaultVars, review_answer, storeVars>>

\* break instead of continue: a failure ends the loop over the tokens
Continue_Break(errs) ==
    /\ stats' = [stats EXCEPT !.errors = @ + errs]
    /\ tok_idx' = Len(job_tokens) + 1
    /\ pc' = "finish"
    /\ access_token' = NoneStr
    /\ emails' = <<>>
    /\ msg_idx' = 0

\* continue: on to the next token, or out of the loop
Continue(errs) ==
    /\ stats' = [stats EXCEPT !.errors = @ + errs]
    /\ tok_idx' = tok_idx + 1
    /\ pc' = IF tok_idx + 1 > Len(job_tokens) THEN "finish" ELSE "provider"
    /\ access_token' = NoneStr
    /\ emails' = <<>>
    /\ msg_idx' = 0

\* a refresh that is also due at the very instant of expiry
NeedsRefresh_AtExpiry(token_expiry, now) == token_expiry # NoTime /\ token_expiry <= now

\* token_record.token_expiry and token_record.token_expiry < datetime.utcnow()
NeedsRefresh(token_expiry, now) == token_expiry # NoTime /\ token_expiry < now

\* the expiry a successful refresh stores: Gmail reports one, Outlook none
RefreshedExpiry(p, old, now) == IF p = "gmail" THEN now + TokenTTL ELSE old

\* lines 540-568: pick the provider, refresh the access token when expired
JobRefresh ==
    /\ pc = "provider"
    /\ LET t == job_tokens[tok_idx]
           p == t.provider
           held == {i \in 1..Len(oauth_tokens) : oauth_tokens[i].provider = p}
       IN  IF ~configured[p] THEN
               /\ Continue(0)
               /\ UNCHANGED <<oauth_tokens, job_tokens, fault_budget>>
           ELSE IF ~NeedsRefresh(t.token_expiry, clock) THEN
               /\ pc' = "fetch"
               /\ access_token' = "stored"
               /\ UNCHANGED <<oauth_tokens, job_tokens, tok_idx, emails, msg_idx,
                              stats, fault_budget>>
           ELSE
               \/ \* the refresh succeeds and the row is updated
                  /\ held # {}
                  /\ LET e == RefreshedExpiry(p, t.token_expiry, clock)
                     IN  /\ oauth_tokens' =
                                [i \in 1..Len(oauth_tokens) |->
                                    IF i \in held
                                    THEN [oauth_tokens[i] EXCEPT !.token_expiry = e]
                                    ELSE oauth_tokens[i]]
                         /\ job_tokens' = [job_tokens EXCEPT ![tok_idx].token_expiry = e]
                  /\ pc' = "fetch"
                  /\ access_token' = "refreshed"
                  /\ UNCHANGED <<tok_idx, emails, msg_idx, stats, fault_budget>>
               \/ \* the row was deleted meanwhile: the commit raises
                  /\ held = {}
                  /\ Continue(1)
                  /\ UNCHANGED <<oauth_tokens, job_tokens, fault_budget>>
               \/ \* refresh_access_token raises
                  /\ fault_budget > 0
                  /\ fault_budget' = fault_budget - 1
                  /\ Continue(1)
                  /\ UNCHANGED <<oauth_tokens, job_tokens>>
    /\ UNCHANGED <<envVars, matchVars, schedVars, oauthVars, vaultVars, review_answer, email_last_run, email_auto_update, app_status, app_order,
                   email_tracking, follow_ups, since, all_applications, fetch_status,
                   wm_at_start>>

\* lines 570-576: fetch_recent_emails returns the messages, returns [] on a
\* 429 or another soft failure, or raises
JobFetch ==
    /\ pc = "fetch"
    /\ \E response \in Responses :
        LET p == job_tokens[tok_idx].provider
            r == fetch_recent_emails(p, mailbox[p], since, response)
        IN  /\ IF response = "200" THEN UNCHANGED fault_budget
               ELSE /\ fault_budget > 0
                    /\ fault_budget' = fault_budget - 1
            /\ fetch_status' = response
            /\ IF r.raised THEN Continue(1)
               ELSE IF r.emails = <<>> THEN Continue(0)
               ELSE /\ emails' = r.emails
                    /\ msg_idx' = 1
                    /\ pc' = "message"
                    /\ UNCHANGED <<tok_idx, access_token, stats>>
    /\ UNCHANGED <<envVars, matchVars, schedVars, oauthVars, vaultVars, review_answer, storeVars, since, job_tokens, all_applications,
                   wm_at_start>>

(***************************************************************************)
(* Lines 578-650: the body of the loop over the fetched messages.          *)
(***************************************************************************)
\* update_application sets last_updated, which orders get_all_applications
MoveToFront(order, a) ==
    <<a>> \o SelectSeq(order, LAMBDA x : x # a)

\* an update that leaves an application that is closed as it is
update_application_KeepClosed(db, app_id, status) ==
    IF db.app_status[app_id] \in {"Rejected", "Offer"} THEN db
    ELSE [db EXCEPT !.app_status[app_id] = status,
                    !.app_order = MoveToFront(@, app_id)]

\* update_application(db, app_id, status=...): whatever the status was
update_application(db, app_id, status) ==
    [db EXCEPT !.app_status[app_id] = status,
               !.app_order = MoveToFront(@, app_id)]

\* a loop body without the lookup
AlreadyProcessed_Never(rows, email_data) == FALSE

\* db.query(EmailTracking).filter_by(email_id=...).exists()
AlreadyProcessed(rows, email_data) ==
    \E i \in 1..Len(rows) : rows[i].email_id = email_data.email_id

\* the row create_follow_up stores; `email_id` is not a column of follow_ups:
\* it records the message that caused the follow-up
FollowUpRow(followup_data, email_id) ==
    [application_id |-> followup_data.application_id,
     action_type |-> followup_data.action_type,
     scheduled_date |-> followup_data.scheduled_date,
     notes |-> followup_data.notes,
     completed |-> FALSE,
     email_id |-> email_id]

\* the statements a failure can interrupt: the lookup, the write of the
\* tracking row, the status update, the write of the follow-up
\* (each write is one db.commit(): a commit that fails stores nothing of it,
\* what earlier commits stored stays, and the session goes on being used)
MessageFaults == {"lookup", "record", "status", "followup"}

NoDelta == ZeroStats

\* The loop body from the lookup on, for the classification and the answer m
\* of the matcher.  Yields the store and the increments of stats.
Reconcile(via, email_data, classification, m, db, today, fault) ==
    LET matched_app == m[1]
        confidence == m[2]
        stage == classification.stage
        new_status == status_map(stage)
        row == TrackingRow(via, email_data, matched_app, confidence, classification)
        stored == [db EXCEPT !.email_tracking = Append(@, row)]
        updated ==
            IF new_status # NoneStr /\ AutoUpdateOn(db.email_auto_update)
            THEN update_application(stored, matched_app, new_status)
            ELSE stored
        followed ==
            [updated EXCEPT !.follow_ups =
                Append(@, FollowUpRow(
                    schedule_followup_from_email(stage, matched_app, today),
                    email_data.email_id))]
    IN  IF fault = "lookup" THEN
            [db |-> db, d |-> [NoDelta EXCEPT !.errors = 1]]
        ELSE IF AlreadyProcessed(db.email_tracking, email_data) THEN
            [db |-> db, d |-> NoDelta]
        ELSE IF fault = "record" THEN
            [db |-> db, d |-> [NoDelta EXCEPT !.errors = 1]]
        ELSE IF ~HighConfidence(matched_app, confidence) THEN
            [db |-> stored, d |-> [NoDelta EXCEPT !.processed = 1]]
        ELSE IF fault = "status" /\ new_status # NoneStr THEN
            [db |-> stored, d |-> [NoDelta EXCEPT !.processed = 1, !.errors = 1]]
        ELSE IF ~HasFollowUp(stage) THEN
            [db |-> updated, d |-> [NoDelta EXCEPT !.processed = 1, !.matched = 1]]
        ELSE IF fault = "followup" THEN
            [db |-> updated,
             d |-> [NoDelta EXCEPT !.processed = 1, !.matched = 1, !.errors = 1]]
        ELSE
            [db |-> followed,
             d |-> [NoDelta EXCEPT !.processed = 1, !.matched = 1,
                                   !.followups_created = 1]]

\* One pass of the loop body over the store db, for the message email_data of
\* provider via, the applications loaded at the start, the classifier outcome
\* llm and the failure fault ("none" when nothing fails).
ProcessEmail(via, email_data, applications, db, today, llm, fault) ==
    Reconcile(via, email_data, classify_email_stage(llm),
              MatchTable[via, email_data.email_id, applications], db, today, fault)

\* the store as the loop body sees it
Store ==
    [email_tracking |-> email_tracking, follow_ups |-> follow_ups,
     app_status |-> app_status, app_order |-> app_order,
     email_auto_update |-> email_auto_update]

AddStats(a, d) ==
    [processed |-> a.processed + d.processed, matched |-> a.matched + d.matched,
     followups_created |-> a.followups_created + d.followups_created,
     errors |-> a.errors + d.errors]

\* a loop body without its try/except: a message that raises ends the job
JobMessage_Unguarded ==
    /\ pc = "message"
    /\ \E fault \in {"none", "classify"} \cup MessageFaults :
        LET via == job_tokens[tok_idx].provider
            llm == LLMOutcome(emails[msg_idx], oracle, fault = "classify")
            r == ProcessEmail(via, emails[msg_idx], all_applications, Store,
                              DayOf(clock), llm, fault)
        IN  /\ IF fault = "none" THEN UNCHANGED fault_budget
               ELSE /\ fault_budget > 0
                    /\ r.d.errors = 1 \/ fault = "classify"
                    /\ ~AlreadyProcessed(email_tracking, emails[msg_idx])
                       \/ fault = "lookup"
                    /\ fault_budget' = fault_budget - 1
            /\ email_tracking' = r.db.email_tracking
            /\ follow_ups' = r.db.follow_ups
            /\ app_status' = r.db.app_status
            /\ app_order' = r.db.app_order
            /\ IF r.d.errors = 1
               THEN JobReturn
               ELSE IF msg_idx < Len(emails)
               THEN /\ stats' = AddStats(stats, r.d)
                    /\ msg_idx' = msg_idx + 1
                    /\ UNCHANGED <<pc, tok_idx, access_token, emails, since,
                                   job_tokens, all_applications, fetch_status,
                                   wm_at_start>>
               ELSE /\ stats' = AddStats(stats, r.d)
                    /\ tok_idx' = tok_idx + 1
                    /\ pc' = IF tok_idx + 1 > Len(job_tokens) THEN "finish" ELSE "provider"
                    /\ access_token' = NoneStr
                    /\ emails' = <<>>
                    /\ msg_idx' = 0
                    /\ UNCHANGED <<since, job_tokens, all_applications,
                                   fetch_status, wm_at_start>>
    /\ UNCHANGED <<envVars, matchVars, schedVars, oauthVars, vaultVars, review_answer, oauth_tokens, email_last_run,
                   email_auto_update>>

JobMessage ==
    /\ pc = "message"
    /\ \E fault \in {"none", "classify"} \cup MessageFaults :
        LET via == job_tokens[tok_idx].provider
            llm == LLMOutcome(emails[msg_idx], oracle, fault = "classify")
            r == ProcessEmail(via, emails[msg_idx], all_applications, Store,
                              DayOf(clock), llm, fault)
        IN  /\ IF fault = "none" THEN UNCHANGED fault_budget
               ELSE /\ fault_budget > 0
                    /\ r.d.errors = 1 \/ fault = "classify"
                    /\ ~AlreadyProcessed(email_tracking, emails[msg_idx])
                       \/ fault = "lookup"
                    /\ fault_budget' = fault_budget - 1
            /\ email_tracking' = r.db.email_tracking
            /\ follow_ups' = r.db.follow_ups
            /\ app_status' = r.db.app_status
            /\ app_order' = r.db.app_order
            /\ IF msg_idx < Len(emails)
               THEN /\ stats' = AddStats(stats, r.d)
                    /\ msg_idx' = msg_idx + 1
                    /\ UNCHANGED <<pc, tok_idx, access_token, emails>>
               ELSE /\ stats' = AddStats(stats, r.d)
                    /\ tok_idx' = tok_idx + 1
                    /\ pc' = IF tok_idx + 1 > Len(job_tokens) THEN "finish" ELSE "provider"
                    /\ access_token' = NoneStr
                    /\ emails' = <<>>
                    /\ msg_idx' = 0
    /\ UNCHANGED <<envVars, matchVars, schedVars, oauthVars, vaultVars, review_answer, oauth_tokens, email_last_run, email_auto_update, since,
                   job_tokens, all_applications, fetch_status, wm_at_start>>

\* a job that leaves a new watermark behind when it raises
JobFinish_WriteOnError ==
    /\ pc = "finish"
    /\ \/ /\ email_last_run' = clock
          /\ JobReturn
          /\ UNCHANGED fault_budget
       \/ /\ fault_budget > 0
          /\ fault_budget' = fault_budget - 1
          /\ JobReturn
          /\ email_last_run' = clock
    /\ UNCHANGED <<envVars, matchVars, schedVars, oauthVars, vaultVars, review_answer, oauth_tokens, email_auto_update, app_status, app_order,
                   email_tracking, follow_ups>>

\* lines 652-663: write the watermark and return the stats; when the write
\* raises, rollback and the job raises
JobFinish ==
    /\ pc = "finish"
    /\ \/ /\ email_last_run' = clock
          /\ JobReturn
          /\ UNCHANGED fault_budget
       \/ /\ fault_budget > 0
          /\ fault_budget' = fault_budget - 1
          /\ JobReturn
          /\ UNCHANGED email_last_run
    /\ UNCHANGED <<envVars, matchVars, schedVars, oauthVars, vaultVars, review_answer, oauth_tokens, email_auto_update, app_status, app_order,
                   email_tracking, follow_ups>>

(***************************************************************************)
(* Spec: the poll cycle while time passes, mail arrives, providers are     *)
(* connected and disconnected and calls and writes fail.                   *)
(***************************************************************************)
Next ==
    \/ Tick
    \/ Deliver
    \/ oauth_callback
    \/ email_disconnect
    \/ JobStart
    \/ JobRefresh
    \/ JobFetch
    \/ JobMessage
    \/ JobFinish

Spec == Init /\ [][Next]_vars

(***************************************************************************)
(* ReviewSpec: the poll cycle together with the operator's settings and    *)
(* review requests, for every label the classification service can put on  *)
(* a message and every order of the tracked applications, with no failure  *)
(* injected.                                                               *)
(***************************************************************************)
ReviewInit ==
    /\ clock = 0
    /\ mailbox = [p \in Providers |-> [i \in MsgIds |-> NoTime]]
    /\ configured = [p \in Providers |-> TRUE]
    /\ oracle \in Labels
    /\ oauth_tokens = <<>>
    /\ email_last_run = NoTime
    /\ email_auto_update = NoneStr
    /\ app_status = [a \in AppIds |-> "Applied"]
    /\ app_order \in {<<1>>, <<2, 1>>}
    /\ email_tracking = <<>>
    /\ follow_ups = <<>>
    /\ pc = "idle"
    /\ since = NoTime
    /\ job_tokens = <<>>
    /\ tok_idx = 0
    /\ access_token = NoneStr
    /\ all_applications = <<>>
    /\ fetch_status = NoneStr
    /\ emails = <<>>
    /\ msg_idx = 0
    /\ stats = ZeroStats
    /\ wm_at_start = NoTime
    /\ fault_budget = 0
    /\ match_email = NoneStr
    /\ match_applications = <<>>
    /\ match_result = <<>>
    /\ NoScheduler
    /\ NoRequests
    /\ review_answer = NoAnswer
    /\ NoVault

ReviewNext ==
    \/ Deliver
    \/ oauth_callback
    \/ settings_save
    \/ email_confirm_match
    \/ email_reject_match
    \/ JobStart
    \/ JobRefresh
    \/ JobFetch
    \/ JobMessage
    \/ JobFinish

ReviewSpec == ReviewInit /\ [][ReviewNext]_vars

(***************************************************************************)
(* Vocabulary of the properties.                                           *)
(***************************************************************************)
\* a step that is one pass of the loop body over emails[msg_idx]
MessageStep == pc = "message" /\ (msg_idx' # msg_idx \/ pc' # "message")

\* the message the loop body is at, and the provider it was fetched from
CurrentEmail == emails[msg_idx]
CurrentVia == job_tokens[tok_idx].provider

\* the step injects no failure
NoFault == fault_budget' = fault_budget

\* the rows of a table that belong to the message id
RecordsIn(rows, id) == {i \in 1..Len(rows) : rows[i].email_id = id}

\* the step stores a row for the message it is at
StoresRow == MessageStep /\ Len(email_tracking') = Len(email_tracking) + 1
NewRow == email_tracking'[Len(email_tracking')]

\* what the matcher answers for the message the loop body is at
CurrentMatch == MatchTable[CurrentVia, CurrentEmail.email_id, all_applications]

(***************************************************************************)
(* C1.  Processing a fetched message is idempotent: a message id that was  *)
(* stored once is skipped whenever it is fetched again (nothing in the     *)
(* store changes and nothing is counted), so there is never more than one  *)
(* tracking row and never more than one follow-up for a message id; and    *)
(* after a pass of the loop body that meets no failure exactly one row for *)
(* the message exists.                                                     *)
(***************************************************************************)
C1_AtMostOnce ==
    \A id \in MsgIds :
        /\ Cardinality(RecordsIn(email_tracking, id)) <= 1
        /\ Cardinality(RecordsIn(follow_ups, id)) <= 1

C1_SkipStep ==
    MessageStep /\ RecordsIn(email_tracking, CurrentEmail.email_id) # {}
        => /\ UNCHANGED <<email_tracking, follow_ups, app_status, app_order>>
           /\ NoFault => stats' = stats

C1_StoredAfter ==
    MessageStep /\ NoFault
        => Cardinality(RecordsIn(email_tracking', CurrentEmail.email_id)) = 1

C1_Idempotent ==
    /\ []C1_AtMostOnce
    /\ [][C1_SkipStep /\ C1_StoredAfter]_vars

\* the loop body is at a message of a provider whose row an earlier cycle stored
C1_Witness ==
    /\ pc = "message"
    /\ \E i \in RecordsIn(email_tracking, CurrentEmail.email_id) :
           email_tracking[i].via = CurrentVia

(***************************************************************************)
(* C2.  The key of the lookup is the pair (provider, message id): a        *)
(* fetched message is skipped exactly when a row with the same provider    *)
(* and the same message id is stored.  The lookup of the code filters by   *)
(* the message id alone.                                                   *)
(***************************************************************************)
C2_SkipStep ==
    MessageStep /\ NoFault
        => (email_tracking' = email_tracking
              <=> \E i \in RecordsIn(email_tracking, CurrentEmail.email_id) :
                      email_tracking[i].via = CurrentVia)

C2_KeyIsProviderAndId == [][C2_SkipStep]_vars

(***************************************************************************)
(* C3.  The matcher's score selects exactly one branch for a new message,  *)
(* whatever the auto-update setting: below 0.5 the row is stored without a *)
(* link; from 0.5 (included) up to 0.7 (excluded) the row is linked and     *)
(* marked auto-matched and nothing else changes; from 0.7 (included) on    *)
(* the row is linked, marked auto-matched and the status-update branch is  *)
(* taken (the message is counted as matched).                              *)
(***************************************************************************)
\* the branch the comparisons of the loop body select for a score
C3_BranchOf(confidence) ==
    LET row == TrackingRow("gmail", RawMessage("gmail", 1), 1, confidence,
                           [stage |-> "offer", confidence |-> LLMConfidence,
                            extracted_data |-> LLMExtracted("offer")])
        high == HighConfidence(1, confidence)
    IN  IF row.application_id = NoApp /\ ~row.auto_matched /\ ~high THEN "record_only"
        ELSE IF row.application_id = 1 /\ row.auto_matched /\ ~high THEN "link_only"
        ELSE IF row.application_id = 1 /\ row.auto_matched /\ high THEN "status_update"
        ELSE "none"

\* every score from 0.0000 to 1.0000, 0.5 and 0.7 among them
C3_Branches ==
    \A c \in 0..10000 :
        C3_BranchOf(c) = IF c < 5000 THEN "record_only"
                         ELSE IF c < 7000 THEN "link_only"
                         ELSE "status_update"

C3_Step ==
    StoresRow =>
        LET a == CurrentMatch[1]
            c == CurrentMatch[2]
        IN  /\ c < 5000 =>
                /\ NewRow.application_id = NoApp /\ ~NewRow.auto_matched
                /\ UNCHANGED <<app_status, app_order, follow_ups>>
                /\ stats'.matched = stats.matched
            /\ c >= 5000 /\ c < 7000 =>
                /\ NewRow.application_id = a /\ NewRow.auto_matched
                /\ UNCHANGED <<app_status, app_order, follow_ups>>
                /\ stats'.matched = stats.matched
            /\ c >= 7000 =>
                /\ NewRow.application_id = a /\ NewRow.auto_matched
                /\ stats'.matched = stats.matched + 1

C3_ThresholdPartition == []C3_Branches /\ [][C3_Step]_vars

\* a message scored 0.6 was linked only, and one scored exactly 0.7 took the
\* status-update branch and got the only follow-up
C3_Witness ==
    /\ \E i, j \in 1..Len(email_tracking) :
        /\ email_tracking[i].via = "gmail" /\ email_tracking[i].email_id = 1
        /\ email_tracking[i].auto_matched /\ email_tracking[i].application_id # NoApp
        /\ email_tracking[i].user_confirmed = NoneStr
        /\ email_tracking[j].via = "outlook" /\ email_tracking[j].email_id = 2
        /\ email_tracking[j].auto_matched /\ email_tracking[j].application_id # NoApp
    /\ Len(follow_ups) = 1
    /\ follow_ups[1].email_id = 2

(***************************************************************************)
(* C4.  One tracked application (Acme Corp, Backend Engineer, Applied),    *)
(* auto-update enabled, a new message from hr@acme.com with the subject    *)
(* 'Unfortunately, we have decided...' labelled {rejection, 0.82}, no      *)
(* failure.  The row is linked to the application and auto-matched.  When  *)
(* the text of the message also names the company (score 0.6 + 0.3) the    *)
(* status becomes Rejected and exactly one follow-up is created, dated one *)
(* day after today, to send a gracious response; with the sender's domain  *)
(* alone (score 0.6) the status stays Applied, no follow-up is created and *)
(* the row waits for review.                                               *)
(***************************************************************************)
C4_Scenario ==
    /\ StoresRow /\ NoFault
    /\ all_applications = <<1>>
    /\ app_status[1] = "Applied"
    /\ email_auto_update \in {NoneStr, "true"}
    /\ CurrentEmail.sender_email = Str_hr_acme
    /\ CurrentEmail.subject = Str_Unfortunately
    /\ NewRow.detected_stage = "rejection"
    /\ NewRow.confidence_score = LLMConfidence

C4_Linked == NewRow.application_id = 1 /\ NewRow.auto_matched

C4_RejectedWithFollowUp ==
    /\ app_status' = [app_status EXCEPT ![1] = "Rejected"]
    /\ Len(follow_ups') = Len(follow_ups) + 1
    /\ SubSeq(follow_ups', 1, Len(follow_ups)) = follow_ups
    /\ LET f == follow_ups'[Len(follow_ups')]
       IN  /\ f.application_id = 1
           /\ f.scheduled_date = DayOf(clock) + 1
           /\ f.notes = "Auto-created: Send gracious response to rejection"
           /\ ~f.completed

C4_Step ==
    C4_Scenario =>
        /\ C4_Linked
        /\ IF CurrentEmail.body_preview = Str_ThankYouAcme
           THEN C4_RejectedWithFollowUp /\ NewRow.user_confirmed = "True"
           ELSE /\ UNCHANGED <<app_status, follow_ups>>
                /\ NewRow.user_confirmed = NoneStr

C4_OriginalStep == C4_Scenario => C4_Linked /\ C4_RejectedWithFollowUp

C5_Step ==
    StoresRow =>
        /\ NewRow.user_confirmed = IF CurrentMatch[2] >= 7000 THEN "True" ELSE NoneStr
        /\ CurrentMatch[2] >= 7000 => Len(email_tracking') \notin get_unconfirmed_matches'

C5_ConfirmedAtHighConfidence == [][C5_Step]_vars

\* the statement of the specification: in the branch from 0.7 on the row is
\* stored with user_confirmed unset, and only the operator's confirmation
\* ever sets it to confirmed
C5_OriginalStep ==
    /\ StoresRow /\ CurrentMatch[2] >= 7000 => NewRow.user_confirmed = NoneStr
    /\ \A i \in 1..Len(email_tracking') :
            /\ email_tracking'[i].user_confirmed = "True"
            /\ i > Len(email_tracking) \/ email_tracking[i].user_confirmed # "True"
            => email_confirm_match

C5_LeftUnset == [][C5_OriginalStep]_vars

\* the cycle has just stored the message scored 0.6 + 0.3 as confirmed
C5_Witness ==
    /\ pc = "finish"
    /\ Len(email_tracking) = 1
    /\ email_tracking[1].via = "outlook" /\ email_tracking[1].email_id = 1
    /\ email_tracking[1].user_confirmed = "True"

(***************************************************************************)
(* C6.  A new message whose score is at least 0.5 and below 0.7 changes no *)
(* application status and creates no follow-up; its row is stored          *)
(* auto-matched with user_confirmed unset, so it is in the review queue,   *)
(* and a row leaves the review queue only by the operator's confirmation   *)
(* or rejection.                                                           *)
(***************************************************************************)
C6_Step ==
    StoresRow /\ CurrentMatch[2] >= 5000 /\ CurrentMatch[2] < 7000 =>
        /\ UNCHANGED <<app_status, app_order, follow_ups>>
        /\ NewRow.auto_matched /\ NewRow.user_confirmed = NoneStr
        /\ Len(email_tracking') \in get_unconfirmed_matches'

C6_Stays ==
    \A i \in get_unconfirmed_matches :
        i \in get_unconfirmed_matches' \/ email_confirm_match \/ email_reject_match

C6_ReviewQueue == [][C6_Step /\ C6_Stays]_vars

\* a finished cycle left the message scored 0.6 in the review queue
C6_Witness ==
    /\ pc = "idle"
    /\ email_last_run # NoTime
    /\ \E i \in get_unconfirmed_matches :
            email_tracking[i].via = "gmail" /\ email_tracking[i].email_id = 1
    /\ \A a \in AppIds : app_status[a] = "Applied"
    /\ follow_ups = <<>>

(***************************************************************************)
(* C7.  A pass of the loop body sets the status of the matched application *)
(* to the table's value for the label (screening -> Screening,             *)
(* interview_invite and interview_schedule -> Interview, rejection ->      *)
(* Rejected, offer -> Offer) exactly when the message is new, its score is *)
(* 0.7 or more, the label is in the table and the auto-update setting is   *)
(* "true" or absent; otherwise it changes no status.                       *)
(***************************************************************************)
C7_Table(stage) ==
    CASE stage = "screening" -> "Screening"
      [] stage = "interview_invite" -> "Interview"
      [] stage = "interview_schedule" -> "Interview"
      [] stage = "rejection" -> "Rejected"
      [] stage = "offer" -> "Offer"
      [] OTHER -> "no entry"

C7_Step ==
    MessageStep =>
        IF /\ StoresRow
           /\ CurrentMatch[2] >= 7000
           /\ C7_Table(NewRow.detected_stage) # "no entry"
           /\ email_auto_update \in {NoneStr, "true"}
        THEN app_status' =
                [app_status EXCEPT ![CurrentMatch[1]] = C7_Table(NewRow.detected_stage)]
        ELSE app_status' = app_status

C7_StatusUpdate == [][C7_Step]_vars

\* with the setting absent a screening message moved the application
C7_Witness ==
    /\ email_auto_update = NoneStr
    /\ app_status[1] = "Screening"
    /\ \E i \in 1..Len(email_tracking) :
            /\ email_tracking[i].detected_stage = "screening"
            /\ email_tracking[i].user_confirmed = "True"

(***************************************************************************)
(* C8.  A pass of the loop body creates exactly one follow-up, for the     *)
(* matched application, when the message is new, its score is 0.7 or more  *)
(* and the label is interview_invite, rejection, offer or screening; the   *)
(* follow-up is dated today + 1, + 1, + 2 and + 5 days.  In every other    *)
(* case it creates none.  The auto-update setting plays no part.           *)
(***************************************************************************)
C8_Offset(stage) ==
    CASE stage = "interview_invite" -> 1
      [] stage = "rejection" -> 1
      [] stage = "offer" -> 2
      [] stage = "screening" -> 5

C8_Step ==
    MessageStep =>
        IF /\ StoresRow
           /\ CurrentMatch[2] >= 7000
           /\ NewRow.detected_stage \in {"interview_invite", "rejection", "offer", "screening"}
        THEN /\ Len(follow_ups') = Len(follow_ups) + 1
             /\ SubSeq(follow_ups', 1, Len(follow_ups)) = follow_ups
             /\ LET f == follow_ups'[Len(follow_ups')]
                IN  /\ f.application_id = CurrentMatch[1]
                    /\ f.scheduled_date = DayOf(clock) + C8_Offset(NewRow.detected_stage)
                    /\ f.email_id = CurrentEmail.email_id
                    /\ ~f.completed
        ELSE follow_ups' = follow_ups

C8_FollowUps == [][C8_Step]_vars

\* with auto-update off a screening message left the status alone and still
\* got its follow-up five days out
C8_Witness ==
    /\ email_auto_update = "false"
    /\ \A a \in AppIds : app_status[a] = "Applied"
    /\ Len(follow_ups) = 1
    /\ follow_ups[1].scheduled_date = 5
    /\ \E i \in 1..Len(email_tracking) :
            /\ email_tracking[i].detected_stage = "screening"
            /\ email_tracking[i].email_id = follow_ups[1].email_id

(***************************************************************************)
(* C9.  At-least-once ingestion, as a property of the states between two   *)
(* cycles: a message that a connected, configured provider holds and that  *)
(* has no row yet is still within the window the next cycle will fetch     *)
(* (not older than the watermark), so that a later cycle can store it.     *)
(* The code moves the watermark to the end of every cycle that returns,    *)
(* whatever that cycle fetched.                                            *)
(***************************************************************************)
Connected(p) == \E i \in 1..Len(oauth_tokens) : oauth_tokens[i].provider = p

C9_StillFetchable ==
    pc = "idle" =>
        \A p \in Providers, i \in MsgIds :
            /\ mailbox[p][i] # NoTime
            /\ Connected(p) /\ configured[p]
            /\ RecordsIn(email_tracking, i) = {}
            => Eligible(p, mailbox[p][i], SinceFrom(email_last_run, clock))

(***************************************************************************)
(* C10.  The watermark is read when the cycle starts and the value read is *)
(* the one every fetch of the cycle uses; it is written only by the last   *)
(* step of a cycle, after the loop over the providers and their messages   *)
(* has ended, and so at most once per cycle and never while messages are   *)
(* processed; a cycle that ends by raising leaves the watermark at the     *)
(* value it had when the cycle started.                                    *)
(***************************************************************************)
C10_DuringCycle ==
    /\ pc # "idle" => email_last_run = wm_at_start
    /\ pc = "finish" => tok_idx > Len(job_tokens) /\ emails = <<>>

C10_Step ==
    /\ email_last_run' # email_last_run =>
            pc = "finish" /\ pc' = "idle" /\ email_last_run' = clock
    /\ pc = "idle" /\ pc' # "idle" =>
            since' = SinceFrom(email_last_run, clock) /\ wm_at_start' = email_last_run
    /\ pc # "idle" /\ pc' # "idle" => since' = since /\ wm_at_start' = wm_at_start
    /\ pc # "idle" /\ pc' = "idle" /\ ~NoFault => email_last_run' = wm_at_start

C10_Watermark == []C10_DuringCycle /\ [][C10_Step]_vars

\* a cycle stored a row and then ended by raising: no watermark was written
C10_Witness ==
    /\ pc = "idle"
    /\ Len(email_tracking) > 0
    /\ email_last_run = NoTime
    /\ fault_budget < MaxFaults

(***************************************************************************)
(* Vocabulary of the provider loop.                                        *)
(***************************************************************************)
\* a step of the cycle at the head of the provider loop (lines 540-568)
RefreshStep == pc = "provider" /\ (pc' # "provider" \/ tok_idx' # tok_idx)
\* the credential the loop is at
CurrentToken == job_tokens[tok_idx]
\* refresh_access_token was called in this step: its token is the one in
\* use afterwards, or its failure was counted
RefreshInvoked == access_token' = "refreshed" \/ stats'.errors = stats.errors + 1
\* a connect or a disconnect request changed the credentials
Reconnected ==
    \E p \in Providers :
        \/ oauth_tokens' = RemoveFirst(oauth_tokens, p)
        \/ oauth_tokens' = Append(RemoveFirst(oauth_tokens, p),
                                  [provider |-> p,
                                   token_expiry |-> IssuedExpiry(p, clock)])

(***************************************************************************)
(* C11: lazy refresh.  When the cycle reaches a provider, the refresh is   *)
(* invoked if and only if the provider is configured and the expiry of its *)
(* credential is present and strictly before the current time; with an     *)
(* expiry in the future, equal to now or absent the cycle goes on to fetch *)
(* with the stored access token.  Outside such a step of the cycle no      *)
(* stored credential is rewritten except by a connect or disconnect.       *)
(***************************************************************************)
C11_Expired ==
    /\ CurrentToken.token_expiry # NoTime
    /\ CurrentToken.token_expiry < clock

C11_Step ==
    /\ RefreshStep =>
          /\ RefreshInvoked <=> (configured[CurrentToken.provider] /\ C11_Expired)
          /\ (configured[CurrentToken.provider] /\ ~C11_Expired) =>
                (pc' = "fetch" /\ access_token' = "stored"
                    /\ oauth_tokens' = oauth_tokens)
    /\ oauth_tokens' # oauth_tokens =>
          \/ RefreshStep /\ configured[CurrentToken.provider] /\ C11_Expired
          \/ Reconnected
    /\ access_token' = "refreshed" =>
          \/ access_token = "refreshed"
          \/ RefreshStep /\ C11_Expired

C11_LazyRefresh == [][C11_Step]_vars

\* a cycle has refreshed an expired Gmail credential and is about to fetch,
\* while an Outlook credential (no expiry) is connected too
C11_Witness ==
    /\ pc = "fetch"
    /\ access_token = "refreshed"
    /\ CurrentToken.provider = "gmail"
    /\ \E i \in 1..Len(job_tokens) : job_tokens[i].token_expiry = NoTime

(***************************************************************************)
(* C12: a failed refresh.  When the refresh attempted for a provider       *)
(* fails, the stored credentials are left as they were (still expired),    *)
(* the failure is counted once, nothing is fetched or stored for that      *)
(* provider, and the loop goes on to the next credential, or to the end of *)
(* the cycle when there is none; the loop never goes back to a provider,   *)
(* and the cycle is left only from its start or from its end.              *)
(***************************************************************************)
C12_RefreshFails ==
    /\ RefreshStep
    /\ configured[CurrentToken.provider]
    /\ C11_Expired
    /\ access_token' # "refreshed"

C12_Step ==
    /\ C12_RefreshFails =>
          /\ oauth_tokens' = oauth_tokens
          /\ job_tokens' = job_tokens
          /\ stats' = [stats EXCEPT !.errors = @ + 1]
          /\ pc' # "fetch" /\ emails' = <<>>
          /\ <<email_tracking, follow_ups, app_status>>' =
                <<email_tracking, follow_ups, app_status>>
          /\ tok_idx' = tok_idx + 1
          /\ pc' = IF tok_idx < Len(job_tokens) THEN "provider" ELSE "finish"
    /\ pc \in {"provider", "fetch", "message"} =>
          /\ pc' # "idle"
          /\ tok_idx' >= tok_idx
          /\ pc' = "finish" => tok_idx' = Len(job_tokens) + 1

C12_RefreshFailureContained == [][C12_Step]_vars

\* a cycle that started now found the Gmail credential expired, its refresh
\* failed, and the cycle has since stored a message of Outlook and reached
\* its end
C12_Witness ==
    /\ pc = "finish"
    /\ wm_at_start = NoTime /\ since = clock - SinceDays * DayLen
    /\ Len(job_tokens) = 2
    /\ job_tokens[1].provider = "gmail" /\ configured["gmail"]
    /\ job_tokens[1].token_expiry # NoTime /\ job_tokens[1].token_expiry < clock
    /\ stats.errors = 1
    /\ stats.processed >= 1
    /\ \E i \in 1..Len(oauth_tokens) :
          /\ oauth_tokens[i].provider = "gmail"
          /\ oauth_tokens[i].token_expiry < clock

(***************************************************************************)
(* C13: rate limiting.  When the provider answers the fetch with HTTP 429  *)
(* the adapter returns an empty list and raises nothing: the error counter *)
(* stays as it was, nothing is stored, and the cycle goes on to the next   *)
(* credential, or to its end, in the state in which an empty mailbox       *)
(* would have left it.                                                     *)
(***************************************************************************)
FetchStep == pc = "fetch" /\ pc' # "fetch"

\* what the step of a fetch that found no mail leaves behind
C13_AsNoNewMail ==
    /\ stats' = stats
    /\ emails' = <<>> /\ msg_idx' = 0
    /\ tok_idx' = tok_idx + 1
    /\ pc' = IF tok_idx < Len(job_tokens) THEN "provider" ELSE "finish"
    /\ access_token' = NoneStr
    /\ <<since, job_tokens, all_applications, wm_at_start>>' =
          <<since, job_tokens, all_applications, wm_at_start>>
    /\ storeVars' = storeVars

C13_Step ==
    /\ (FetchStep /\ fetch_status' = "429") => C13_AsNoNewMail
    /\ (FetchStep /\ fetch_status' = "200"
            /\ FetchResult(CurrentToken.provider, mailbox[CurrentToken.provider],
                           since) = <<>>) => C13_AsNoNewMail

C13_RateLimitIsNoMail == [][C13_Step]_vars

\* Outlook answered 429 while it held a message the cycle would have
\* fetched, and the cycle went on to its end without counting an error
C13_Witness ==
    /\ pc = "finish"
    /\ fetch_status = "429"
    /\ job_tokens[Len(job_tokens)].provider = "outlook"
    /\ stats.errors = 0
    /\ \E i \in MsgIds : /\ mailbox["outlook"][i] # NoTime
                         /\ mailbox["outlook"][i] >= since

(***************************************************************************)
(* C14: the classifier's fallback.  When the call to the classification    *)
(* service or the parsing of its reply fails, classify_email_stage raises  *)
(* nothing: the loop body goes on with exactly stage other, confidence 0.0 *)
(* and empty extracted data, so the message is stored with these values,   *)
(* counted as processed and not counted as an error.                       *)
(***************************************************************************)
\* the step in which the call of the service failed: a failure was injected
\* and it was not one of the loop body's own
C14_ClassifierFails ==
    /\ MessageStep
    /\ fault_budget' = fault_budget - 1
    /\ stats'.errors = stats.errors

C14_Fallback == [stage |-> "other", confidence |-> 0, extracted_data |-> {}]

C14_OutcomeFallback ==
    \A p \in Providers, i \in MsgIds, o \in Labels \cup {"by_text"} :
        classify_email_stage(LLMOutcome(RawMessage(p, i), o, TRUE)) = C14_Fallback

C14_Step ==
    C14_ClassifierFails =>
        /\ C14_OutcomeFallback
        /\ StoresRow
        /\ NewRow.email_id = CurrentEmail.email_id
        /\ NewRow.detected_stage = C14_Fallback.stage
        /\ NewRow.confidence_score = C14_Fallback.confidence
        /\ NewRow.parsed_data = C14_Fallback.extracted_data
        /\ stats'.processed = stats.processed + 1
        /\ app_status' = app_status
        /\ follow_ups' = follow_ups

C14_NeverPropagates == [][C14_Step]_vars

\* a message whose classification failed is stored as other with confidence
\* 0.0 although its text reads as a rejection
C14_Witness ==
    \E i \in 1..Len(email_tracking) :
        /\ email_tracking[i].detected_stage = "other"
        /\ email_tracking[i].confidence_score = 0
        /\ email_tracking[i].parsed_data = {}
        /\ LabelOfText(RawMessage(email_tracking[i].via, email_tracking[i].email_id))
              = "rejection"
        /\ fault_budget = MaxFaults - 1

(***************************************************************************)
(* C15: whatever the classification service answers, the stage written to  *)
(* every tracking row is one of the seven stages and its confidence lies   *)
(* in [0, 1] (0 to 100 hundredths).  The code stores the parsed reply as   *)
(* it is: a label outside the seven stages reaches the row unchanged.      *)
(***************************************************************************)
C15_StageAndConfidenceValid ==
    \A i \in 1..Len(email_tracking) :
        /\ email_tracking[i].detected_stage \in VALID_EMAIL_STAGES
        /\ email_tracking[i].confidence_score \in 0..100

(***************************************************************************)
(* MatchSpec: auto_match_email_to_application called once, on every        *)
(* message of MatchEmails with every list of up to MaxApps different       *)
(* applications, in every order.                                           *)
(***************************************************************************)
MaxApps == 2

Str_HR_ACME == <<"H","R","@","A","C","M","E",".","C","O","M">>

\* the fetched messages and, besides: one without a sender, one from a
\* consumer mail service whose text names company and role, one from the
\* company's domain whose text names both, one with the sender in capitals
MatchEmails ==
    {RawMessage(p, i) : p \in Providers, i \in MsgIds}
    \cup
    {[email_id |-> 0, sender_email |-> <<>>,
      subject |-> Str_BackendInterview, body_preview |-> Str_ThankYouAcme],
     [email_id |-> 0, sender_email |-> Str_jobs_gmail,
      subject |-> Str_BackendOpening, body_preview |-> Str_ThankYouAcme],
     [email_id |-> 0, sender_email |-> Str_hr_acme,
      subject |-> Str_BackendInterview, body_preview |-> Str_ThankYouAcme],
     [email_id |-> 0, sender_email |-> Str_HR_ACME,
      subject |-> Str_Unfortunately, body_preview |-> <<>>]}

MatchAppLists ==
    {l \in UNION {[1..n -> MatcherAppIds] : n \in 0..MaxApps} :
        \A i, j \in 1..Len(l) : l[i] = l[j] => i = j}

\* the rows get_all_applications hands over for a list of ids
AppRows(ids) == [k \in 1..Len(ids) |-> Application(ids[k])]

MatchInit ==
    /\ clock = 0
    /\ mailbox = [p \in Providers |-> [i \in MsgIds |-> NoTime]]
    /\ configured = [p \in Providers |-> TRUE]
    /\ oracle = "by_text"
    /\ oauth_tokens = <<>>
    /\ email_last_run = NoTime
    /\ email_auto_update = NoneStr
    /\ app_status = [a \in AppIds |-> "Applied"]
    /\ app_order = <<1>>
    /\ email_tracking = <<>>
    /\ follow_ups = <<>>
    /\ pc = "idle"
    /\ since = NoTime
    /\ job_tokens = <<>>
    /\ tok_idx = 0
    /\ access_token = NoneStr
    /\ all_applications = <<>>
    /\ fetch_status = NoneStr
    /\ emails = <<>>
    /\ msg_idx = 0
    /\ stats = ZeroStats
    /\ wm_at_start = NoTime
    /\ fault_budget = 0
    /\ match_email \in MatchEmails
    /\ match_applications \in MatchAppLists
    /\ match_result = <<>>
    /\ NoScheduler
    /\ NoRequests
    /\ review_answer = NoAnswer
    /\ NoVault

MatchCall ==
    /\ match_result = <<>>
    /\ match_result' =
          auto_match_email_to_application(match_email, AppRows(match_applications))
    /\ UNCHANGED <<envVars, storeVars, jobVars, fault_budget, match_email,
                   match_applications, schedVars, oauthVars, vaultVars, review_answer>>

MatchNext == MatchCall

MatchSpec == MatchInit /\ [][MatchNext]_vars

\* the matcher has returned
Matched == match_result # <<>>
\* the positions of the applications the loop does not pass over
WithCompany == {k \in 1..Len(match_applications) :
                    Application(match_applications[k]).company # <<>>}

(***************************************************************************)
(* C16: the score.  An application earns 0.6 when the slug of the sender's *)
(* domain and the slug of the company contain one another, 0.3 when the    *)
(* company occurs in subject and body, 0.1 when the role does; the score   *)
(* returned is the greatest over the applications and at most 1.0; with    *)
(* 'Acme Corp' tracked a sender at acme.com scores at least 0.6, and at    *)
(* least 0.9 when 'Acme Corp' also occurs in the body.  The sums are       *)
(* doubles: 0.6 + 0.3 is 0.8999999999999999, below 0.9.                    *)
(***************************************************************************)
Str_acme_com == <<"a","c","m","e",".","c","o","m">>

C16_Scores ==
    (Matched /\ match_email.sender_email # <<>> /\ match_applications # <<>>) =>
        /\ match_result[2] <= F1_0
        /\ \A k \in WithCompany :
              AppScore(match_email, Application(match_applications[k]))
                 <= match_result[2]
        /\ (\E k \in 1..Len(match_applications) : match_applications[k] = 1)
             /\ SenderDomain(match_email.sender_email) = Str_acme_com
           => /\ match_result[2] >= F0_6
              /\ IsSubstr(Lower(Str_AcmeCorp), Lower(match_email.body_preview))
                 => match_result[2] >= F0_6 + F0_3

(***************************************************************************)
(* C17: the selection.  The application returned is the one with the       *)
(* greatest score, which is above zero; among applications with that score *)
(* it is the first of the list; when no application scores above zero the  *)
(* answer is no application and 0.0.                                       *)
(***************************************************************************)
C17_ScoreAt(k) == AppScore(match_email, Application(match_applications[k]))

C17_Selection ==
    (Matched /\ match_email.sender_email # <<>> /\ match_applications # <<>>) =>
        IF \A k \in WithCompany : C17_ScoreAt(k) = F0_0
        THEN match_result = <<NoApp, F0_0>>
        ELSE \E k \in WithCompany :
                /\ match_result = <<match_applications[k], C17_ScoreAt(k)>>
                /\ C17_ScoreAt(k) > F0_0
                /\ \A j \in WithCompany :
                      /\ C17_ScoreAt(j) <= C17_ScoreAt(k)
                      /\ C17_ScoreAt(j) = C17_ScoreAt(k) => k <= j

\* 'Acme Inc' listed before 'Acme Corp', both at 0.6: 'Acme Inc' is returned
C17_Witness ==
    /\ Matched
    /\ match_applications = <<2, 1>>
    /\ C17_ScoreAt(1) = F0_6 /\ C17_ScoreAt(2) = F0_6
    /\ match_result = <<2, F0_6>>

(***************************************************************************)
(* C18: the edge cases.  An empty list of applications or an empty sender  *)
(* gives no application and 0.0; a sender at a consumer mail service never *)
(* earns the 0.6 of the domain, so its score is at most 0.4; an            *)
(* application with an empty company is never returned.                    *)
(***************************************************************************)
C18_EdgeCases ==
    Matched =>
        /\ (match_email.sender_email = <<>> \/ match_applications = <<>>)
              => match_result = <<NoApp, F0_0>>
        /\ (HasChar(match_email.sender_email, "@")
               /\ Lower(SplitSecond(match_email.sender_email, "@")) \in skip_domains)
              => match_result[2] <= F0_3 + F0_1
        /\ match_result[1] # NoApp
              => Application(match_result[1]).company # <<>>

\* a sender at gmail.com whose text names company and role scores 0.4, with
\* an application named Gmail and one without a company in the list
C18_Witness ==
    /\ Matched
    /\ match_email.sender_email = Str_jobs_gmail
    /\ match_result = <<1, F0_3 + F0_1>>
    /\ \E k \in 1..Len(match_applications) :
          Application(match_applications[k]).company = <<>>

(***************************************************************************)
(* C19: a message that raises.  When the loop body raises for a message    *)
(* (the lookup or a write to the store fails) the error is counted once,   *)
(* nothing further is done for that message, every row, status and         *)
(* follow-up stored before stays, the loop goes on with the next message   *)
(* or the next credential, and a cycle that reaches its end writes the     *)
(* watermark whatever number of errors it counted.                         *)
(***************************************************************************)
\* the step injects a failure that the classifier's fallback does not absorb
C19_MessageRaises ==
    /\ MessageStep
    /\ fault_budget' = fault_budget - 1
    /\ ~(StoresRow /\ NewRow.detected_stage = "other" /\ NewRow.confidence_score = 0)

C19_Step ==
    /\ C19_MessageRaises =>
          /\ pc' # "idle"
          /\ stats'.errors = stats.errors + 1
          /\ stats'.followups_created = stats.followups_created
          /\ IF msg_idx < Len(emails)
             THEN pc' = "message" /\ msg_idx' = msg_idx + 1 /\ tok_idx' = tok_idx
                    /\ emails' = emails
             ELSE /\ tok_idx' = tok_idx + 1
                  /\ pc' = IF tok_idx < Len(job_tokens) THEN "provider" ELSE "finish"
          /\ job_tokens' = job_tokens
          /\ Len(email_tracking') \in {Len(email_tracking), Len(email_tracking) + 1}
          /\ \A i \in 1..Len(email_tracking) : email_tracking'[i] = email_tracking[i]
          /\ follow_ups' = follow_ups
          /\ \A a \in AppIds :
                app_status'[a] # app_status[a] =>
                    /\ StoresRow /\ NewRow.application_id = a
                    /\ app_status'[a] = status_map(NewRow.detected_stage)
          /\ email_last_run' = email_last_run
    /\ (pc = "finish" /\ pc' = "idle" /\ NoFault) => email_last_run' = clock

MaxDue == 2
max_instances == 1
PoolSize == 4

\* a wrapper that logs the exception and raises it again
Wrapper_Reraise(body) ==
    IF body = "raise" THEN [raised |-> TRUE, logged |-> "failed"]
    ELSE [raised |-> FALSE, logged |-> "ok"]

\* the five wrappers: try: <body> except Exception as e: logger.error(...)
Wrapper(body) ==
    IF body = "raise" THEN [raised |-> FALSE, logged |-> "failed"]
    ELSE [raised |-> FALSE, logged |-> "ok"]

SchedInit ==
    /\ clock = 0
    /\ mailbox = [p \in Providers |-> [i \in MsgIds |-> NoTime]]
    /\ configured = [p \in Providers |-> TRUE]
    /\ oracle = "by_text"
    /\ oauth_tokens = <<>>
    /\ email_last_run = NoTime
    /\ email_auto_update = NoneStr
    /\ app_status = [a \in AppIds |-> "Applied"]
    /\ app_order = <<1>>
    /\ email_tracking = <<>>
    /\ follow_ups = <<>>
    /\ pc = "idle"
    /\ since = NoTime
    /\ job_tokens = <<>>
    /\ tok_idx = 0
    /\ access_token = NoneStr
    /\ all_applications = <<>>
    /\ fetch_status = NoneStr
    /\ emails = <<>>
    /\ msg_idx = 0
    /\ stats = ZeroStats
    /\ wm_at_start = NoTime
    /\ fault_budget = 0
    /\ match_email = NoneStr
    /\ match_applications = <<>>
    /\ match_result = <<>>
    /\ NoScheduler
    /\ NoRequests
    /\ review_answer = NoAnswer
    /\ NoVault

\* init_scheduler: add the five jobs (replace_existing) and start
init_scheduler ==
    /\ ~sched_running
    /\ sched_jobs' = JobIds
    /\ sched_running' = TRUE
    /\ UNCHANGED <<executing, due, job_log, escaped>>
    /\ UNCHANGED <<envVars, storeVars, jobVars, fault_budget, matchVars, oauthVars, vaultVars, review_answer>>

\* shutdown_scheduler: shutdown(wait=False); the runs under way go on
shutdown_scheduler ==
    /\ sched_running
    /\ sched_running' = FALSE
    /\ UNCHANGED <<sched_jobs, executing, due, job_log, escaped>>
    /\ UNCHANGED <<envVars, storeVars, jobVars, fault_budget, matchVars, oauthVars, vaultVars, review_answer>>

RECURSIVE SumOver(_, _)
SumOver(f, S) ==
    IF S = {} THEN 0
    ELSE LET x == CHOOSE y \in S : TRUE IN f[x] + SumOver(f, S \ {x})

\* a scheduler that starts a run however many of the job are running
CanFire_Unlimited(running, jobs, busy, j) ==
    running /\ j \in jobs /\ SumOver(busy, JobIds) < PoolSize

\* a run of the job may start: job_defaults max_instances, and a free thread
CanFire(running, jobs, busy, j) ==
    /\ running /\ j \in jobs
    /\ busy[j] < max_instances
    /\ SumOver(busy, JobIds) < PoolSize

\* the time of a firing of a job's trigger passes
TriggerDue ==
    \E j \in sched_jobs :
        /\ SumOver(due, JobIds) < MaxDue
        /\ due' = [due EXCEPT ![j] = @ + 1]
        /\ UNCHANGED <<sched_running, sched_jobs, executing, job_log, escaped>>
        /\ UNCHANGED <<envVars, storeVars, jobVars, fault_budget, matchVars, oauthVars, vaultVars, review_answer>>

\* run_job_now: job.modify(next_run_time=now); an unknown id does nothing
run_job_now ==
    \E j \in JobIds :
        /\ due[j] = 0 => SumOver(due, JobIds) < MaxDue
        /\ IF j \in sched_jobs THEN due' = [due EXCEPT ![j] = 1]
           ELSE UNCHANGED due
        /\ UNCHANGED <<sched_running, sched_jobs, executing, job_log, escaped>>
        /\ UNCHANGED <<envVars, storeVars, jobVars, fault_budget, matchVars, oauthVars, vaultVars, review_answer>>

\* the scheduler processes a due job once a thread is free: with coalesce
\* all its due firings make one run, which is skipped when max_instances
\* runs of the job are under way; the next firing is computed either way
Fire ==
    \E j \in sched_jobs :
        /\ sched_running
        /\ due[j] > 0
        /\ SumOver(executing, JobIds) < PoolSize
        /\ due' = [due EXCEPT ![j] = 0]
        /\ IF CanFire(sched_running, sched_jobs, executing, j)
           THEN executing' = [executing EXCEPT ![j] = @ + 1]
           ELSE UNCHANGED executing
        /\ UNCHANGED <<sched_running, sched_jobs, job_log, escaped>>
        /\ UNCHANGED <<envVars, storeVars, jobVars, fault_budget, matchVars, oauthVars, vaultVars, review_answer>>

\* the run of a wrapper ends
RunWrapper ==
    \E j \in JobIds, body \in {"return", "raise"} :
        LET out == Wrapper(body)
        IN  /\ executing[j] > 0
            /\ executing' = [executing EXCEPT ![j] = @ - 1]
            /\ job_log' = [job_log EXCEPT ![j] = out.logged]
            /\ escaped' = IF out.raised THEN escaped \cup {j} ELSE escaped
            /\ UNCHANGED <<sched_running, sched_jobs, due>>
            /\ UNCHANGED <<envVars, storeVars, jobVars, fault_budget, matchVars, oauthVars, vaultVars, review_answer>>

SchedNext ==
    \/ init_scheduler
    \/ shutdown_scheduler
    \/ TriggerDue
    \/ run_job_now
    \/ Fire
    \/ RunWrapper

SchedSpec == SchedInit /\ [][SchedNext]_vars

(***************************************************************************)
(* C20: job failure isolation.  No exception raised in any of the five     *)
(* jobs gets past its wrapper.  The run that failed is logged and leaves   *)
(* the scheduler as it was: running if it was running, with all five jobs, *)
(* the runs of the other jobs untouched, and every job that is not         *)
(* running, the one that failed included, ready to fire again.             *)
(***************************************************************************)
C20_FailedRun(j) ==
    executing[j] > 0 /\ executing'[j] = executing[j] - 1 /\ job_log'[j] = "failed"

C20_Step ==
    /\ escaped' = {}
    /\ \A j \in JobIds :
          C20_FailedRun(j) =>
              /\ sched_running' = sched_running
              /\ sched_jobs' = sched_jobs /\ sched_jobs' = JobIds
              /\ \A k \in JobIds \ {j} : executing'[k] = executing[k]
              /\ due' = due
              /\ \A k \in JobIds \ {j} : job_log'[k] = job_log[k]
              /\ sched_running' =>
                    \A k \in JobIds :
                        executing'[k] = 0 =>
                            CanFire(sched_running', sched_jobs', executing', k)

C20_JobFailureIsolated == [][C20_Step]_vars

\* the email poll failed and has fired again, while the cleanup that ran
\* meanwhile ended well
C20_Witness ==
    /\ sched_running
    /\ job_log["email_monitoring"] = "failed"
    /\ executing["email_monitoring"] = 1
    /\ job_log["monthly_cleanup"] = "ok"
    /\ job_log["followup_reminders"] = "failed"
    /\ escaped = {}

(***************************************************************************)
(* C21: one instance at a time, and no backlog.  In the scheduler at most  *)
(* one run of each job is under way at any moment, so two email poll       *)
(* cycles never overlap, also when run_job_now asks for a run while one is *)
(* going; and when the scheduler gets to a job with firings that came due  *)
(* meanwhile, however many, it starts at most one run for all of them and  *)
(* keeps none of them for later.                                           *)
(***************************************************************************)
C21_Step ==
    /\ \A j \in JobIds : executing'[j] <= 1
    /\ \A j \in JobIds :
          executing'[j] > executing[j] =>
              /\ executing[j] = 0
              /\ due[j] >= 1 /\ due'[j] = 0
              /\ \A k \in JobIds \ {j} : executing'[k] = executing[k] /\ due'[k] = due[k]
    /\ \A j \in JobIds :
          (due[j] >= 1 /\ due'[j] = 0 /\ executing[j] = 1) => executing'[j] = 1

C21_OneInstanceCoalesced == [][C21_Step]_vars

\* the email poll is running while as many firings of it as the bound
\* allows have come due
C21_Witness ==
    /\ sched_running
    /\ executing["email_monitoring"] = 1
    /\ due["email_monitoring"] = MaxDue

(***************************************************************************)
(* OAuthSpec: the OAuth routes of app.py, handled by a threaded server.    *)
(* Each request runs in its own thread with its own session, so the        *)
(* statements of two requests interleave at their database calls.  Here a  *)
(* row of oauth_tokens carries its id, which is what the session deletes   *)
(* and updates a loaded row by.                                            *)
(***************************************************************************)
\* a request slot is free once the client has read the previous answer
Free(r) == req_pc[r] = "idle" /\ req_response[r] = NoneStr

\* a provider that hands out a URL whether or not it is configured
get_auth_url_Unchecked(p, is_configured) == "auth_url"

\* GmailProvider.get_auth_url, OutlookProvider.get_auth_url
get_auth_url(p, is_configured) == IF ~is_configured THEN "" ELSE "auth_url"

\* how the provider answers the code
Exchanges == {"granted", "rejected"}

\* authenticate(code, redirect_uri): {} when not configured; a rejected code
\* makes Gmail's flow.fetch_token raise and Outlook return {}
authenticate(p, is_configured, exchange, now) ==
    IF ~is_configured THEN [raised |-> FALSE, tokens |-> FALSE, expiry |-> NoTime]
    ELSE IF exchange = "rejected"
         THEN [raised |-> p = "gmail", tokens |-> FALSE, expiry |-> NoTime]
    ELSE [raised |-> FALSE, tokens |-> TRUE, expiry |-> IssuedExpiry(p, now)]

\* db.query(OAuthToken).filter_by(provider=provider).first(), its id
FirstId(rows, p) ==
    LET held == {i \in 1..Len(rows) : rows[i].provider = p}
    IN  IF held = {} THEN 0
        ELSE rows[CHOOSE i \in held : \A k \in held : i <= k].id

\* DELETE FROM oauth_tokens WHERE id = ?; a row already gone is only warned of
DeleteId(rows, id) == SelectSeq(rows, LAMBDA t : t.id # id)

\* the rows of a provider
RowsOf(rows, p) == {i \in 1..Len(rows) : rows[i].provider = p}

\* GET /oauth/start/<provider>
oauth_start ==
    \E r \in ReqIds, p \in Providers :
        /\ Free(r)
        /\ LET auth_url == get_auth_url(p, configured[p])
           IN  req_response' =
                   [req_response EXCEPT ![r] =
                       IF ~configured[p] THEN "not_configured"
                       ELSE IF auth_url = "" THEN "no_auth_url"
                       ELSE "redirect_to_provider"]
        /\ req_provider' = [req_provider EXCEPT ![r] = p]
        /\ UNCHANGED <<req_pc, req_existing, req_expiry, next_token_id>>
        /\ UNCHANGED <<envVars, storeVars, jobVars, fault_budget, matchVars, schedVars, vaultVars, review_answer>>

\* a callback that removes the stored row before it exchanges the code
oauth_callback_exchange_DeleteFirst ==
    \E r \in ReqIds, p \in Providers, code \in BOOLEAN, exchange \in Exchanges :
        LET a == authenticate(p, configured[p], exchange, clock)
        IN  /\ Free(r)
            /\ next_token_id <= MaxRows
            /\ req_provider' = [req_provider EXCEPT ![r] = p]
            /\ oauth_tokens' = IF code THEN RemoveFirst(oauth_tokens, p) ELSE oauth_tokens
            /\ IF ~code
               THEN /\ req_response' = [req_response EXCEPT ![r] = "no_code"]
                    /\ UNCHANGED <<req_pc, req_existing, req_expiry>>
               ELSE IF a.raised
               THEN /\ req_response' = [req_response EXCEPT ![r] = "error_500"]
                    /\ UNCHANGED <<req_pc, req_existing, req_expiry>>
               ELSE IF ~a.tokens
               THEN /\ req_response' = [req_response EXCEPT ![r] = "auth_failed"]
                    /\ UNCHANGED <<req_pc, req_existing, req_expiry>>
               ELSE /\ req_pc' = [req_pc EXCEPT ![r] = "queried"]
                    /\ req_existing' = [req_existing EXCEPT ![r] = 0]
                    /\ req_expiry' = [req_expiry EXCEPT ![r] = a.expiry]
                    /\ UNCHANGED req_response
            /\ UNCHANGED next_token_id
            /\ UNCHANGED <<envVars, email_last_run, email_auto_update, app_status,
                           app_order, email_tracking, follow_ups, jobVars,
                           fault_budget, matchVars, schedVars, vaultVars, review_answer>>

\* GET /oauth/callback/<provider>, lines 1522-1542: the code, the exchange,
\* and the query for the row to replace
oauth_callback_exchange ==
    \E r \in ReqIds, p \in Providers, code \in BOOLEAN, exchange \in Exchanges :
        LET a == authenticate(p, configured[p], exchange, clock)
        IN  /\ Free(r)
            /\ next_token_id <= MaxRows
            /\ req_provider' = [req_provider EXCEPT ![r] = p]
            /\ IF ~code
               THEN /\ req_response' = [req_response EXCEPT ![r] = "no_code"]
                    /\ UNCHANGED <<req_pc, req_existing, req_expiry>>
               ELSE IF a.raised
               THEN /\ req_response' = [req_response EXCEPT ![r] = "error_500"]
                    /\ UNCHANGED <<req_pc, req_existing, req_expiry>>
               ELSE IF ~a.tokens
               THEN /\ req_response' = [req_response EXCEPT ![r] = "auth_failed"]
                    /\ UNCHANGED <<req_pc, req_existing, req_expiry>>
               ELSE /\ req_pc' = [req_pc EXCEPT ![r] = "queried"]
                    /\ req_existing' = [req_existing EXCEPT ![r] = FirstId(oauth_tokens, p)]
                    /\ req_expiry' = [req_expiry EXCEPT ![r] = a.expiry]
                    /\ UNCHANGED req_response
            /\ UNCHANGED next_token_id
            /\ UNCHANGED <<envVars, storeVars, jobVars, fault_budget, matchVars, schedVars, vaultVars, review_answer>>

\* lines 1543-1545: delete the row found, commit
oauth_callback_delete ==
    \E r \in ReqIds :
        /\ req_pc[r] = "queried"
        /\ oauth_tokens' =
               IF req_existing[r] # 0 THEN DeleteId(oauth_tokens, req_existing[r])
               ELSE oauth_tokens
        /\ req_pc' = [req_pc EXCEPT ![r] = "deleted"]
        /\ UNCHANGED <<req_provider, req_existing, req_expiry, req_response, next_token_id>>
        /\ UNCHANGED <<envVars, email_last_run, email_auto_update, app_status,
                       app_order, email_tracking, follow_ups, jobVars,
                       fault_budget, matchVars, schedVars, vaultVars, review_answer>>

\* lines 1547-1556: add the new row, commit, redirect to /settings
oauth_callback_add ==
    \E r \in ReqIds :
        /\ req_pc[r] = "deleted"
        /\ oauth_tokens' =
               Append(oauth_tokens, [id |-> next_token_id,
                                     provider |-> req_provider[r],
                                     token_expiry |-> req_expiry[r]])
        /\ next_token_id' = next_token_id + 1
        /\ req_pc' = [req_pc EXCEPT ![r] = "idle"]
        /\ req_existing' = [req_existing EXCEPT ![r] = 0]
        /\ req_expiry' = [req_expiry EXCEPT ![r] = NoTime]
        /\ req_response' = [req_response EXCEPT ![r] = "redirect_to_settings"]
        /\ UNCHANGED req_provider
        /\ UNCHANGED <<envVars, email_last_run, email_auto_update, app_status,
                       app_order, email_tracking, follow_ups, jobVars,
                       fault_budget, matchVars, schedVars, vaultVars, review_answer>>

\* POST /settings/email/disconnect/<provider>, with its answer
email_disconnect_request ==
    \E r \in ReqIds, p \in Providers :
        /\ Free(r)
        /\ oauth_tokens' = RemoveFirst(oauth_tokens, p)
        /\ req_provider' = [req_provider EXCEPT ![r] = p]
        /\ req_response' = [req_response EXCEPT ![r] = "200"]
        /\ UNCHANGED <<req_pc, req_existing, req_expiry, next_token_id>>
        /\ UNCHANGED <<envVars, email_last_run, email_auto_update, app_status,
                       app_order, email_tracking, follow_ups, jobVars,
                       fault_budget, matchVars, schedVars, vaultVars, review_answer>>

\* the client has the answer; the handler's thread is free again
ResponseRead ==
    \E r \in ReqIds :
        /\ req_pc[r] = "idle" /\ req_response[r] # NoneStr
        /\ req_response' = [req_response EXCEPT ![r] = NoneStr]
        /\ req_provider' = [req_provider EXCEPT ![r] = NoneStr]
        /\ UNCHANGED <<req_pc, req_existing, req_expiry, next_token_id>>
        /\ UNCHANGED <<envVars, storeVars, jobVars, fault_budget, matchVars, schedVars, vaultVars, review_answer>>

\* email_monitoring_job, lines 555-564: a poll cycle refreshes a stored
\* credential that has expired and commits the new expiry
token_refresh ==
    \E i \in 1..Len(oauth_tokens) :
        LET t == oauth_tokens[i]
        IN  /\ configured[t.provider]
            /\ NeedsRefresh(t.token_expiry, clock)
            /\ oauth_tokens' =
                   [oauth_tokens EXCEPT
                       ![i].token_expiry = RefreshedExpiry(t.provider, @, clock)]
            /\ UNCHANGED oauthVars
            /\ UNCHANGED <<envVars, email_last_run, email_auto_update, app_status,
                           app_order, email_tracking, follow_ups, jobVars,
                           fault_budget, matchVars, schedVars, vaultVars, review_answer>>

OAuthInit == Init

OAuthNext ==
    \/ Tick
    \/ oauth_start
    \/ oauth_callback_exchange
    \/ oauth_callback_delete
    \/ oauth_callback_add
    \/ email_disconnect_request
    \/ ResponseRead
    \/ token_refresh

OAuthSpec == OAuthInit /\ [][OAuthNext]_vars

(***************************************************************************)
(* C22: one credential per provider.  In every reachable state             *)
(* oauth_tokens holds at most one row for each provider, whatever OAuth    *)
(* callbacks, disconnects and refreshes have run and however they          *)
(* interleaved, two callbacks for the same provider handled at the same    *)
(* time included.                                                          *)
(***************************************************************************)
C22_OnePerProvider ==
    \A p \in Providers : Cardinality(RowsOf(oauth_tokens, p)) <= 1

(***************************************************************************)
(* C23: disconnect is terminal.  When a disconnect request for a provider  *)
(* has completed, in whatever state the credential was, no row of          *)
(* oauth_tokens is left for that provider, so that a poll cycle starting   *)
(* afterwards loads none and neither refreshes nor fetches for it until a  *)
(* new exchange succeeds; a disconnect for a provider without a credential *)
(* changes nothing and answers 200.                                        *)
(***************************************************************************)
C23_Disconnects(r, p) ==
    req_response[r] = NoneStr /\ req_response'[r] = "200" /\ req_provider'[r] = p

C23_Step ==
    \A r \in ReqIds, p \in Providers :
        C23_Disconnects(r, p) =>
            /\ RowsOf(oauth_tokens', p) = {}
            /\ RowsOf(oauth_tokens, p) = {} => oauth_tokens' = oauth_tokens

C23_DisconnectTerminal == [][C23_Step]_vars

(***************************************************************************)
(* VaultSpec: encrypt_token and decrypt_token of email_monitor.py.  A      *)
(* token is a sequence of characters.  A Fernet token is the version       *)
(* marker, then what stands for the signature (the key that made it) and   *)
(* for the salt, then the ciphertext, which stands for itself.             *)
(***************************************************************************)
Str_KeyOne == "k1"
Str_KeyTwo == "k2"
Str_BadKey == "not-base64"
Str_Marker == "gAAAAA"
Salts == {"s1", "s2"}

\* the values ENCRYPTION_KEY takes: unset, not a Fernet key, two keys
EncryptionKeys == {"", Str_BadKey, Str_KeyOne, Str_KeyTwo}

\* tokens: none, two plain ones, and two that are themselves Fernet tokens
VaultTokens ==
    { <<>>,
      <<"y", "a">>,
      <<"1", "/">>,
      <<Str_Marker, Str_KeyOne, "s1", "y", "a">>,
      <<Str_Marker, Str_KeyTwo, "s2">> }

\* _get_fernet: None ("") without the library, without a key, or when
\* Fernet(key) raises
get_fernet(has_crypto, key) ==
    IF ~has_crypto THEN ""
    ELSE IF key = "" THEN ""
    ELSE IF key = Str_BadKey THEN ""
    ELSE key

\* Fernet.encrypt
FernetEncrypt(f, salt, data) == <<Str_Marker, f, salt>> \o data

\* Fernet.decrypt: InvalidToken unless the token was made with this key
FernetDecrypt(f, tok) ==
    IF Len(tok) >= 3 /\ tok[1] = Str_Marker /\ tok[2] = f /\ tok[3] \in Salts
    THEN [raised |-> FALSE, value |-> SubSeq(tok, 4, Len(tok))]
    ELSE [raised |-> TRUE, value |-> <<>>]

encrypt_token(f, salt, token) ==
    IF f # "" /\ token # <<>> THEN FernetEncrypt(f, salt, token) ELSE token

\* a decrypt_token without its try
decrypt_token_Unguarded(f, encrypted) ==
    IF f # "" /\ encrypted # <<>>
    THEN FernetDecrypt(f, encrypted)
    ELSE [raised |-> FALSE, value |-> encrypted]

decrypt_token(f, encrypted) ==
    IF f # "" /\ encrypted # <<>>
    THEN LET d == FernetDecrypt(f, encrypted)
         IN  IF d.raised THEN [raised |-> FALSE, value |-> encrypted]
             ELSE [raised |-> FALSE, value |-> d.value]
    ELSE [raised |-> FALSE, value |-> encrypted]

VaultInit ==
    /\ clock = 0
    /\ mailbox = [p \in Providers |-> [i \in MsgIds |-> NoTime]]
    /\ configured = [p \in Providers |-> TRUE]
    /\ oracle = "by_text"
    /\ oauth_tokens = <<>>
    /\ email_last_run = NoTime
    /\ email_auto_update = NoneStr
    /\ app_status = [a \in AppIds |-> "Applied"]
    /\ app_order = <<1>>
    /\ email_tracking = <<>>
    /\ follow_ups = <<>>
    /\ pc = "idle"
    /\ since = NoTime
    /\ job_tokens = <<>>
    /\ tok_idx = 0
    /\ access_token = NoneStr
    /\ all_applications = <<>>
    /\ fetch_status = NoneStr
    /\ emails = <<>>
    /\ msg_idx = 0
    /\ stats = ZeroStats
    /\ wm_at_start = NoTime
    /\ fault_budget = 0
    /\ match_email = NoneStr
    /\ match_applications = <<>>
    /\ match_result = <<>>
    /\ NoScheduler
    /\ NoRequests
    /\ review_answer = NoAnswer
    /\ encryption_key \in EncryptionKeys
    /\ HAS_CRYPTO \in BOOLEAN
    /\ vault_token \in VaultTokens
    /\ vault_encrypted = [called |-> FALSE, fernet |-> "", value |-> <<>>]
    /\ vault_decrypted = [called |-> FALSE, fernet |-> "", encrypted |-> <<>>,
                          raised |-> FALSE, value |-> <<>>]

\* the process is restarted with another ENCRYPTION_KEY
SetKey ==
    \E key \in EncryptionKeys :
        /\ key # encryption_key
        /\ encryption_key' = key
        /\ UNCHANGED <<HAS_CRYPTO, vault_token, vault_encrypted, vault_decrypted>>
        /\ UNCHANGED <<envVars, storeVars, jobVars, fault_budget, matchVars, schedVars,
                       oauthVars, review_answer>>

\* encrypt_token(vault_token)
EncryptCall ==
    \E salt \in Salts :
        LET f == get_fernet(HAS_CRYPTO, encryption_key)
        IN  /\ vault_encrypted' =
                   [called |-> TRUE, fernet |-> f,
                    value |-> encrypt_token(f, salt, vault_token)]
            /\ UNCHANGED <<encryption_key, HAS_CRYPTO, vault_token, vault_decrypted>>
            /\ UNCHANGED <<envVars, storeVars, jobVars, fault_budget, matchVars,
                           schedVars, oauthVars, review_answer>>

\* decrypt_token of what was stored, or of any other value
DecryptCall ==
    \E encrypted \in {vault_encrypted.value} \cup VaultTokens :
        LET f == get_fernet(HAS_CRYPTO, encryption_key)
            d == decrypt_token(f, encrypted)
        IN  /\ vault_decrypted' =
                   [called |-> TRUE, fernet |-> f, encrypted |-> encrypted,
                    raised |-> d.raised, value |-> d.value]
            /\ UNCHANGED <<encryption_key, HAS_CRYPTO, vault_token, vault_encrypted>>
            /\ UNCHANGED <<envVars, storeVars, jobVars, fault_budget, matchVars,
                           schedVars, oauthVars, review_answer>>

VaultNext == SetKey \/ EncryptCall \/ DecryptCall

VaultSpec == VaultInit /\ [][VaultNext]_vars

(***************************************************************************)
(* C24: the vault's round trip.  With a key configured and the same at     *)
(* both calls, decrypt_token gives back the non-empty token encrypt_token  *)
(* was given; with no key both return their argument; and decrypt_token    *)
(* never raises and returns its argument as it is when that cannot be      *)
(* decrypted with the configured key.                                      *)
(***************************************************************************)
C24_RoundTrip ==
    (/\ vault_encrypted.called /\ vault_decrypted.called
     /\ vault_decrypted.encrypted = vault_encrypted.value
     /\ vault_encrypted.fernet # "" /\ vault_decrypted.fernet = vault_encrypted.fernet
     /\ vault_token # <<>>)
        => vault_decrypted.value = vault_token

C24_Vault ==
    /\ C24_RoundTrip
    /\ (vault_encrypted.called /\ vault_encrypted.fernet = "")
          => vault_encrypted.value = vault_token
    /\ (vault_decrypted.called /\ vault_decrypted.fernet = "")
          => vault_decrypted.value = vault_decrypted.encrypted
    /\ vault_decrypted.called =>
          /\ ~vault_decrypted.raised
          /\ FernetDecrypt(vault_decrypted.fernet, vault_decrypted.encrypted).raised
                => vault_decrypted.value = vault_decrypted.encrypted

\* a token that is itself a Fernet token came back from the round trip, and
\* the last call was given something the key cannot decrypt
C24_Witness ==
    /\ vault_encrypted.called /\ vault_encrypted.fernet = Str_KeyOne
    /\ vault_token = <<Str_Marker, Str_KeyOne, "s1", "y", "a">>
    /\ vault_encrypted.value # vault_token
    /\ vault_decrypted.called /\ vault_decrypted.fernet = Str_KeyTwo
    /\ vault_decrypted.encrypted = vault_encrypted.value
    /\ vault_decrypted.value = vault_decrypted.encrypted

(***************************************************************************)
(* C25: a provider without client credentials.  Asked for the              *)
(* authorization URL, a provider that is not configured returns no usable  *)
(* URL, and /oauth/start for it answers that the provider is not           *)
(* configured and does not redirect.                                       *)
(***************************************************************************)
C25_Starts(r, p) ==
    /\ req_response[r] = NoneStr
    /\ req_response'[r] \in {"not_configured", "no_auth_url", "redirect_to_provider"}
    /\ req_provider'[r] = p

C25_Step ==
    /\ \A p \in Providers : ~configured[p] => get_auth_url(p, configured[p]) = ""
    /\ \A r \in ReqIds, p \in Providers :
          (C25_Starts(r, p) /\ ~configured[p]) =>
              req_response'[r] = "not_configured"

C25_NotConfigured == [][C25_Step]_vars

\* /oauth/start/outlook has answered while Outlook has no client credentials
C25_Witness ==
    \E r \in ReqIds :
        /\ req_provider[r] = "outlook" /\ ~configured["outlook"]
        /\ req_response[r] = "not_configured"

(***************************************************************************)
(* C29: a failed exchange leaves the credentials alone.  A callback that   *)
(* ends without tokens (no code, provider not configured, code rejected)   *)
(* changes no row of oauth_tokens; a callback removes or adds a row only   *)
(* after its exchange has succeeded.                                       *)
(***************************************************************************)
C29_Fails(r) ==
    /\ req_response[r] = NoneStr
    /\ req_response'[r] \in {"no_code", "auth_failed", "error_500"}

C29_Step ==
    /\ \A r \in ReqIds : C29_Fails(r) => oauth_tokens' = oauth_tokens
    /\ \A r \in ReqIds :
          (req_pc'[r] # req_pc[r] /\ oauth_tokens' # oauth_tokens) =>
              req_pc[r] \in {"queried", "deleted"}

C29_FailedExchangeKeepsCredential == [][C29_Step]_vars

\* a callback for Gmail was answered with a failure and Gmail's credential
\* is in the store
C29_Witness ==
    \E r \in ReqIds :
        /\ req_provider[r] = "gmail"
        /\ req_response[r] \in {"auth_failed", "error_500"}
        /\ RowsOf(oauth_tokens, "gmail") # {}

(***************************************************************************)
(* C26: no record without its follow-up.  Between poll cycles, whatever    *)
(* writes failed in the cycles before, every stored record that is linked  *)
(* to an application at a score of at least 0.7 (the rows stored with      *)
(* user_confirmed = True) and whose stage is interview_invite, rejection,  *)
(* offer or screening has exactly one follow-up caused by its message.     *)
(***************************************************************************)
C26_FollowUpsOf(id) == {i \in 1..Len(follow_ups) : follow_ups[i].email_id = id}

C26_Owed(row) ==
    /\ row.application_id # NoApp
    /\ row.user_confirmed = "True"
    /\ HasFollowUp(row.detected_stage)

C26_FollowUpPerRecord ==
    pc = "idle" =>
        \A i \in 1..Len(email_tracking) :
            C26_Owed(email_tracking[i]) =>
                Cardinality(C26_FollowUpsOf(email_tracking[i].email_id)) = 1

(***************************************************************************)
(* C27: matched means linked.  In every state that poll cycles and the     *)
(* confirm and reject requests lead to, a record filed as auto_matched is  *)
(* linked to an application, and a record without a link is not filed as   *)
(* auto_matched.                                                           *)
(***************************************************************************)
C27_MatchedIsLinked ==
    \A i \in 1..Len(email_tracking) :
        /\ email_tracking[i].auto_matched => email_tracking[i].application_id # NoApp
        /\ email_tracking[i].application_id = NoApp => ~email_tracking[i].auto_matched

\* a record the operator rejected beside one stored as matched, and one the
\* matcher found nothing for
C27_Witness ==
    /\ \E i \in 1..Len(email_tracking) :
          /\ email_tracking[i].user_confirmed = "False"
          /\ email_tracking[i].application_id = NoApp
    /\ \E i \in 1..Len(email_tracking) :
          /\ email_tracking[i].auto_matched
          /\ email_tracking[i].application_id # NoApp

(***************************************************************************)
(* TriageSpec: the review requests with their answers, beside poll cycles  *)
(* that store the records they act on.                                     *)
(***************************************************************************)
TriageInit == ReviewInit /\ oracle = "rejection" /\ app_order = <<1>>

\* POST /api/email/confirm/<tracking_id>, with its answer
confirm_request ==
    \E tracking_id \in 1..(Len(email_tracking) + 1) :
        /\ review_answer = NoAnswer
        /\ IF tracking_id <= Len(email_tracking)
           THEN /\ email_tracking' =
                       [email_tracking EXCEPT ![tracking_id] = ConfirmRow(@)]
                /\ review_answer' = [route |-> "confirm", tracking_id |-> tracking_id,
                                     status |-> "200"]
           ELSE /\ UNCHANGED email_tracking
                /\ review_answer' = [route |-> "confirm", tracking_id |-> tracking_id,
                                     status |-> "404"]
        /\ UNCHANGED <<envVars, matchVars, schedVars, oauthVars, vaultVars, oauth_tokens,
                       email_last_run, email_auto_update, app_status, app_order,
                       follow_ups, jobVars, fault_budget>>

\* POST /api/email/reject/<tracking_id>, with its answer
reject_request ==
    \E tracking_id \in 1..(Len(email_tracking) + 1) :
        /\ review_answer = NoAnswer
        /\ IF tracking_id <= Len(email_tracking)
           THEN /\ email_tracking' =
                       [email_tracking EXCEPT ![tracking_id] = RejectRow(@)]
                /\ review_answer' = [route |-> "reject", tracking_id |-> tracking_id,
                                     status |-> "200"]
           ELSE /\ UNCHANGED email_tracking
                /\ review_answer' = [route |-> "reject", tracking_id |-> tracking_id,
                                     status |-> "404"]
        /\ UNCHANGED <<envVars, matchVars, schedVars, oauthVars, vaultVars, oauth_tokens,
                       email_last_run, email_auto_update, app_status, app_order,
                       follow_ups, jobVars, fault_budget>>

\* the client has the answer
AnswerRead ==
    /\ review_answer # NoAnswer
    /\ review_answer' = NoAnswer
    /\ UNCHANGED <<envVars, storeVars, jobVars, fault_budget, matchVars, schedVars,
                   oauthVars, vaultVars>>

TriageNext ==
    \/ Deliver
    \/ oauth_callback
    \/ JobStart
    \/ JobRefresh
    \/ JobFetch
    \/ JobMessage
    \/ JobFinish
    \/ confirm_request
    \/ reject_request
    \/ AnswerRead

TriageSpec == TriageInit /\ [][TriageNext]_vars

(***************************************************************************)
(* C28: what confirm and reject change.  Confirm on a stored record sets   *)
(* user_confirmed to true and nothing else on any record; reject sets      *)
(* user_confirmed to false, auto_matched to false and clears the link;     *)
(* after either the record is not in the review queue; neither changes an  *)
(* application's status nor adds or removes a follow-up; and either, for   *)
(* an id that is not stored, answers 404 and changes nothing.              *)
(***************************************************************************)
C28_Queue(rows) ==
    {i \in 1..Len(rows) : rows[i].auto_matched /\ rows[i].user_confirmed = NoneStr}

C28_Answers(route, id) ==
    /\ review_answer = NoAnswer
    /\ review_answer'.route = route /\ review_answer'.tracking_id = id

C28_Frame ==
    /\ app_status' = app_status /\ app_order' = app_order
    /\ follow_ups' = follow_ups
    /\ UNCHANGED <<oauth_tokens, email_last_run, email_auto_update>>

C28_Step ==
    \A id \in 1..(Len(email_tracking) + 1) :
        /\ (C28_Answers("confirm", id) /\ id <= Len(email_tracking)) =>
              /\ review_answer'.status = "200"
              /\ email_tracking' =
                     [email_tracking EXCEPT ![id].user_confirmed = "True"]
              /\ id \notin C28_Queue(email_tracking')
              /\ C28_Frame
        /\ (C28_Answers("reject", id) /\ id <= Len(email_tracking)) =>
              /\ review_answer'.status = "200"
              /\ email_tracking' =
                     [email_tracking EXCEPT ![id].user_confirmed = "False",
                                            ![id].auto_matched = FALSE,
                                            ![id].application_id = NoApp]
              /\ id \notin C28_Queue(email_tracking')
              /\ C28_Frame
        /\ ((C28_Answers("confirm", id) \/ C28_Answers("reject", id))
                /\ id > Len(email_tracking)) =>
              /\ review_answer'.status = "404"
              /\ email_tracking' = email_tracking
              /\ C28_Frame

C28_ReviewEffects == [][C28_Step]_vars

\* a stored record has been rejected; the follow-up and the status that
\* the poll cycle made are still there
C28_Witness ==
    /\ review_answer.route = "reject" /\ review_answer.status = "200"
    /\ email_tracking[review_answer.tracking_id].user_confirmed = "False"
    /\ email_tracking[review_answer.tracking_id].application_id = NoApp
    /\ follow_ups # <<>>
    /\ app_status[1] = "Rejected"

(***************************************************************************)
(* C30: the last message wins.  The records are stored in the order the    *)
(* cycle processes the messages: provider after provider, and each         *)
(* provider's messages in the order fetched.  With auto-update on and no   *)
(* write having failed, an application's status is the table status of the *)
(* last record that is linked to it at a score of at least 0.7 with a      *)
(* stage of the table, whatever the status was before that message,        *)
(* Rejected and Offer included.                                            *)
(***************************************************************************)
C30_Updates(a) ==
    {i \in 1..Len(email_tracking) :
        /\ email_tracking[i].application_id = a
        /\ email_tracking[i].user_confirmed = "True"
        /\ status_map(email_tracking[i].detected_stage) # NoneStr}

C30_Last(a) == CHOOSE i \in C30_Updates(a) : \A k \in C30_Updates(a) : k <= i

C30_LastMessageWins ==
    (fault_budget = MaxFaults /\ AutoUpdateOn(email_auto_update)) =>
        \A a \in AppIds :
            C30_Updates(a) # {} =>
                app_status[a] = status_map(email_tracking[C30_Last(a)].detected_stage)

\* one cycle has matched two messages to application 1: the first closed it
\* as Rejected or Offer, the second gave it another status
C30_Witness ==
    /\ fault_budget = MaxFaults
    /\ pc = "finish" /\ stats.matched = 2
    /\ C30_Updates(1) = {1, 2}
    /\ status_map(email_tracking[1].detected_stage) \in {"Rejected", "Offer"}
    /\ app_status[1] = status_map(email_tracking[2].detected_stage)
    /\ app_status[1] # status_map(email_tracking[1].detected_stage)
====
